---------------------------- MODULE Spec2Model ----------------------------
(***************************************************************************)
(* Polydiction anomaly scoring: the scorer (scoreTrade and its helpers),   *)
(* the Feature Bank (computeAllFeatures and the eight feature functions),  *)
(* the scoring configuration, trade ingestion from the CLOB and the        *)
(* position polling service.                                               *)
(*                                                                         *)
(* JavaScript numbers are modelled as exact rationals <<n, d>> with d > 0  *)
(* in lowest terms, so equalities and the strict/non-strict comparisons of *)
(* the code are decided exactly.  Input domains are chosen so that no      *)
(* division by zero (Infinity / NaN) occurs.                               *)
(***************************************************************************)
EXTENDS Integers, Sequences, FiniteSets, TLC

VARIABLES
    input,        \* the ScoringInput / FeatureInput under evaluation
    sensitivity,  \* sensitivity passed to the last scoreTrade call
    result,       \* ScoringResult of the last scoreTrade call, or NoResult
    evals,        \* number of scoreTrade calls made on this input
    bank,         \* Record<FeatureName, FeatureResult> of computeAllFeatures, or NoResult
    bankScore,    \* computeWeightedScore of bank, or NoResult
    normIn,       \* <<value, median>> handed to the three copies of normalize
    normOut,      \* their three results, or NoResult
    weights,      \* the engine's FEATURE_WEIGHTS table as loaded
    weightsValid, \* result of a validateWeights() call, or NoResult
    timing,       \* FeatureResult of computeTimingVsMarketEnd, or NoResult
    trades,       \* the trades collection, one document per trade id
    snapshots,    \* the wallet-position snapshots collection
    pc,           \* where the position run in progress stands
    opts,         \* options of the position run in progress or last returned
    window,       \* trades read by getTradesByMarket for that run
    leg,          \* number of updatePosition calls made by that run
    positionsByWallet, \* its Map<wallet, Map<tokenId, WalletTokenPosition>>
    legsApplied,  \* <<trade id, role>> of the calls that passed the wallet check
    returned,     \* what the last finished run returned, or NoResult
    runs,         \* number of position runs started
    items,        \* the array handed to batchInsertTrades / processBatches
    batchSize,    \* its batch size
    batchStart,   \* i of processBatches' loop
    ops,          \* the operation started for each item: where it stands, its result
    results,      \* processBatches' results array
    inserted,     \* what batchInsertTrades returned, or NoResult
    writes,       \* per trade id, the documents written under it, in order
    clock,        \* Timestamp.now()
    operation,    \* the operation processBatches was given
    batchPc,      \* where the processBatches call stands
    storedBefore, \* ids of the trades stored before the call
    alertDocs,    \* the alerts collection, in creation order
    cronRuns,     \* the batchCreateAlerts calls in progress
    retryConfig,  \* fullConfig of the withRetry call
    retryPc,      \* where the withRetry call stands
    attempt,      \* its loop variable
    lastError,    \* its lastError
    totalDelayMs, \* its totalDelayMs
    invocations,  \* how each invocation of fn so far has settled
    retryResult,  \* the RetryResult returned, or NoResult
    limiterConfig, \* RateLimiter.config
    requests,     \* RateLimiter.requests
    limiterNow,   \* Date.now()
    callers,      \* the withRateLimit calls in progress
    recorded,     \* the time of every recordRequest so far
    values,       \* the array handed to calculateMedian
    medianResult  \* what calculateMedian returned, or NoResult

scoringVars ==
    <<input, sensitivity, result, evals, bank, bankScore, normIn, normOut,
      weights, weightsValid, timing>>

positionVars ==
    <<trades, snapshots, pc, opts, window, leg, positionsByWallet, legsApplied,
      returned, runs>>

batchVars ==
    <<items, batchSize, batchStart, ops, results, inserted, writes, clock,
      operation, batchPc, storedBefore>>

alertVars ==
    <<alertDocs, cronRuns>>

retryVars ==
    <<retryConfig, retryPc, attempt, lastError, totalDelayMs, invocations, retryResult>>

limiterVars ==
    <<limiterConfig, requests, limiterNow, callers, recorded>>

medianVars ==
    <<values, medianResult>>

serviceVars ==
    <<batchVars, alertVars, retryVars, limiterVars, medianVars>>

vars == <<scoringVars, positionVars, serviceVars>>

\* walletAgeDays is null, or a number n, written <<n>>.
NULL == <<>>
Days(age) == age[1]

\* No call has been made yet.
NoResult == [none |-> TRUE]

\* A JavaScript property that is undefined.
UNDEFINED == "undefined"

\* No position run has started and both collections are empty.
PositionsIdle ==
    /\ trades = {}
    /\ snapshots = {}
    /\ pc = "idle"
    /\ opts = NoResult
    /\ window = <<>>
    /\ leg = 0
    /\ positionsByWallet = <<>>
    /\ legsApplied = {}
    /\ returned = NoResult
    /\ runs = 0

\* No batch insert has been started.
BatchIdle ==
    /\ items = <<>>
    /\ batchSize = 1
    /\ batchStart = 0
    /\ ops = <<>>
    /\ results = <<>>
    /\ inserted = NoResult
    /\ writes = <<>>
    /\ clock = 0
    /\ operation = "none"
    /\ batchPc = "idle"
    /\ storedBefore = {}

\* No alert exists and no cron run is creating any.
AlertsIdle ==
    /\ alertDocs = <<>>
    /\ cronRuns = <<>>

\* withRetry has not been called.
RetryIdle ==
    /\ retryConfig = NoResult
    /\ retryPc = "idle"
    /\ attempt = 0
    /\ lastError = NoResult
    /\ totalDelayMs = <<0, 1>>
    /\ invocations = <<>>
    /\ retryResult = NoResult

\* The rate limiter is not in use.
LimiterIdle ==
    /\ limiterConfig = NoResult
    /\ requests = <<>>
    /\ limiterNow = 0
    /\ callers = <<>>
    /\ recorded = <<>>

\* calculateMedian has not been called.
MedianIdle ==
    /\ values = <<>>
    /\ medianResult = NoResult

ServicesIdle ==
    /\ BatchIdle
    /\ AlertsIdle
    /\ RetryIdle
    /\ LimiterIdle
    /\ MedianIdle

\* Largest number of scoreTrade calls followed on one input.
MaxEvals == 2

-----------------------------------------------------------------------------
(* JavaScript number arithmetic, exact.                                    *)

RECURSIVE Gcd(_, _)
Gcd(a, b) ==
    IF b = 0 THEN a ELSE Gcd(b, a % b)

IAbs(n) ==
    IF n < 0 THEN -n ELSE n

\* n / d in lowest terms with a positive denominator (d # 0).
R(n, d) ==
    LET g == Gcd(IAbs(n), IAbs(d))
        s == IF d < 0 THEN -1 ELSE 1
    IN  <<(s * n) \div g, (s * d) \div g>>

I(n) ==
    <<n, 1>>

RAdd(a, b) ==
    R(a[1] * b[2] + b[1] * a[2], a[2] * b[2])

RSub(a, b) ==
    R(a[1] * b[2] - b[1] * a[2], a[2] * b[2])

RMul(a, b) ==
    R(a[1] * b[1], a[2] * b[2])

\* a / b for b # 0.
RDiv(a, b) ==
    R(a[1] * b[2], a[2] * b[1])

RLt(a, b) ==
    a[1] * b[2] < b[1] * a[2]

RLe(a, b) ==
    a[1] * b[2] <= b[1] * a[2]

RGt(a, b) ==
    RLt(b, a)

RGe(a, b) ==
    RLe(b, a)

\* Math.min
RMin(a, b) ==
    IF RLt(b, a) THEN b ELSE a

\* Math.abs
RAbs(a) ==
    <<IAbs(a[1]), a[2]>>

Zero == I(0)
One == I(1)


-----------------------------------------------------------------------------
(* Scoring configuration.                                                  *)

\* Iteration order of Object.entries(FEATURE_WEIGHTS) and of the object
\* extractFeatures returns.
FeatureOrder ==
    <<"tradeSizeVsMedian", "tradeSizeVsDepth", "aggressiveness", "walletBurst",
      "positionConcentration", "rampSpeed", "walletFreshness", "dollarValue">>

FeatureNames ==
    {FeatureOrder[i] : i \in 1..Len(FeatureOrder)}

FEATURE_WEIGHTS ==
    [tradeSizeVsMedian |-> R(15, 100),
     tradeSizeVsDepth |-> R(15, 100),
     aggressiveness |-> R(2, 10),
     walletBurst |-> R(15, 100),
     positionConcentration |-> R(1, 10),
     rampSpeed |-> R(1, 10),
     walletFreshness |-> R(1, 10),
     dollarValue |-> R(5, 100)]

DEFAULT_ALERT_SENSITIVITY ==
    R(3, 10)

\* Mutant: the slope is subtracted, so a higher sensitivity lowers the bar.
getAlertThreshold_fallingSlope(s) ==
    RSub(R(75, 100), RMul(s, R(5, 10)))

\* Mutant: the slope is applied without the 0.25 base.
getAlertThreshold_noBase(s) ==
    RMul(s, R(5, 10))

getAlertThreshold(s) ==
    RAdd(R(25, 100), RMul(s, R(5, 10)))

MUST_FLAG_THRESHOLDS ==
    [singleTradeUsd |-> 25000,
     hourlyAccumulationUsd |-> 50000,
     newWalletTradeUsd |-> 10000,
     newWalletAgeDays |-> 7,
     positionLiquidityPercent |-> 5]

\* The Feature Bank's copy of the threshold formula.
calculateThreshold(s) ==
    RAdd(R(25, 100), RMul(s, R(5, 10)))

\* Object.values(FEATURE_WEIGHTS).reduce((a, b) => a + b, 0) over the first n
\* entries of the loaded table.
RECURSIVE weightTotal(_)
weightTotal(n) ==
    IF n = 0 THEN Zero
    ELSE RAdd(weightTotal(n - 1), weights[FeatureOrder[n]])

\* Exported by the configuration module; no module of the engine calls it.
validateWeights ==
    RLt(RAbs(RSub(weightTotal(Len(FeatureOrder)), One)), R(1, 1000))

-----------------------------------------------------------------------------
(* Number formatting used in the must-flag condition texts.                *)

Pad3(n) ==
    IF n < 10 THEN "00" \o ToString(n)
    ELSE IF n < 100 THEN "0" \o ToString(n)
    ELSE ToString(n)

\* Number.prototype.toLocaleString() of a non-negative integer below 10^6,
\* en-US grouping.
toLocaleString(n) ==
    IF n < 1000 THEN ToString(n)
    ELSE ToString(n \div 1000) \o "," \o Pad3(n % 1000)

\* Number.prototype.toFixed(1) of a non-negative number: the nearest tenth,
\* the larger one on a tie.
toFixed1(x) ==
    LET n == (20 * x[1] + x[2]) \div (2 * x[2])
    IN  ToString(n \div 10) \o "." \o ToString(n % 10)

-----------------------------------------------------------------------------
(* The scorer.                                                             *)

\* normalize of the scorer: only a median of exactly 0 is short-circuited.
normalizeEngine(value, median) ==
    IF median = Zero THEN Zero
    ELSE LET ratio == RDiv(value, median)
         IN  RSub(One, RDiv(One, RAdd(One, ratio)))

extractAggressiveness(trade, market) ==
    LET midPrice == RDiv(RAdd(market.bestBid, market.bestAsk), I(2))
        spread == RSub(market.bestAsk, market.bestBid)
    IN  IF RGt(spread, Zero)
        THEN IF trade.side = "BUY" /\ RGe(trade.price, market.bestAsk)
             THEN RAdd(R(8, 10),
                       RMul(R(2, 10),
                            RMin(RDiv(RSub(trade.price, market.bestAsk), spread), One)))
             ELSE IF trade.side = "SELL" /\ RLe(trade.price, market.bestBid)
             THEN RAdd(R(8, 10),
                       RMul(R(2, 10),
                            RMin(RDiv(RSub(market.bestBid, trade.price), spread), One)))
             ELSE LET distanceFromMid == RAbs(RSub(trade.price, midPrice))
                  IN  RMul(RDiv(distanceFromMid, RDiv(spread, I(2))), R(5, 10))
        ELSE Zero

extractWalletFreshness(context) ==
    IF context.walletAgeDays # NULL
    THEN IF Days(context.walletAgeDays) < 1 THEN One
         ELSE IF Days(context.walletAgeDays) < 7 THEN R(8, 10)
         ELSE IF Days(context.walletAgeDays) < 30 THEN R(4, 10)
         ELSE R(1, 10)
    ELSE Zero

extractFeatures(in) ==
    LET trade == in.trade
        market == in.market
        context == in.context
        relevantDepth == IF trade.side = "BUY" THEN market.askDepth ELSE market.bidDepth
        positionDelta == RAbs(RSub(context.walletPosition, context.walletPositionHourAgo))
    IN  [tradeSizeVsMedian |-> normalizeEngine(trade.size, context.medianTradeSize),
         tradeSizeVsDepth |->
             IF RGt(relevantDepth, Zero)
             THEN RMin(RDiv(trade.size, relevantDepth), One)
             ELSE One,
         aggressiveness |-> extractAggressiveness(trade, market),
         walletBurst |-> RMin(RDiv(I(context.walletTradesLastHour), I(10)), One),
         positionConcentration |->
             IF RGt(context.totalLiquidity, Zero)
             THEN RMin(RDiv(context.walletPosition, context.totalLiquidity), One)
             ELSE Zero,
         rampSpeed |->
             IF RGt(context.medianTradeSize, Zero)
             THEN normalizeEngine(positionDelta, RMul(context.medianTradeSize, I(5)))
             ELSE Zero,
         walletFreshness |-> extractWalletFreshness(context),
         dollarValue |-> normalizeEngine(context.tradeUsdValue, I(5000))]


\* Mutant: the new-wallet rule is tested before the single-trade rule.
checkMustFlag_newWalletFirst(in) ==
    LET context == in.context
        T == MUST_FLAG_THRESHOLDS
        hourlyDelta ==
            RMul(RAbs(RSub(context.walletPosition, context.walletPositionHourAgo)),
                 in.trade.price)
        positionPercent ==
            RMul(RDiv(context.walletPosition, context.totalLiquidity), I(100))
    IN  IF /\ context.walletAgeDays # NULL
           /\ Days(context.walletAgeDays) < T.newWalletAgeDays
           /\ RGt(context.tradeUsdValue, I(T.newWalletTradeUsd))
        THEN [mustFlag |-> TRUE,
              condition |-> "New wallet (" \o ToString(Days(context.walletAgeDays))
                            \o "d old) traded > $" \o toLocaleString(T.newWalletTradeUsd)]
        ELSE IF RGt(context.tradeUsdValue, I(T.singleTradeUsd))
        THEN [mustFlag |-> TRUE,
              condition |-> "Single trade > $" \o toLocaleString(T.singleTradeUsd)]
        ELSE IF RGt(hourlyDelta, I(T.hourlyAccumulationUsd))
        THEN [mustFlag |-> TRUE,
              condition |-> "Accumulated > $" \o toLocaleString(T.hourlyAccumulationUsd)
                            \o " in 1 hour"]
        ELSE IF /\ RGt(context.totalLiquidity, Zero)
                /\ RGt(positionPercent, I(T.positionLiquidityPercent))
        THEN [mustFlag |-> TRUE,
              condition |-> "Position is " \o toFixed1(positionPercent)
                            \o "% of market liquidity"]
        ELSE [mustFlag |-> FALSE, condition |-> UNDEFINED]

checkMustFlag(in) ==
    LET context == in.context
        T == MUST_FLAG_THRESHOLDS
        hourlyDelta ==
            RMul(RAbs(RSub(context.walletPosition, context.walletPositionHourAgo)),
                 in.trade.price)
        positionPercent ==
            RMul(RDiv(context.walletPosition, context.totalLiquidity), I(100))
    IN  IF RGt(context.tradeUsdValue, I(T.singleTradeUsd))
        THEN [mustFlag |-> TRUE,
              condition |-> "Single trade > $" \o toLocaleString(T.singleTradeUsd)]
        ELSE IF RGt(hourlyDelta, I(T.hourlyAccumulationUsd))
        THEN [mustFlag |-> TRUE,
              condition |-> "Accumulated > $" \o toLocaleString(T.hourlyAccumulationUsd)
                            \o " in 1 hour"]
        ELSE IF /\ context.walletAgeDays # NULL
                /\ Days(context.walletAgeDays) < T.newWalletAgeDays
                /\ RGt(context.tradeUsdValue, I(T.newWalletTradeUsd))
        THEN [mustFlag |-> TRUE,
              condition |-> "New wallet (" \o ToString(Days(context.walletAgeDays))
                            \o "d old) traded > $" \o toLocaleString(T.newWalletTradeUsd)]
        ELSE IF /\ RGt(context.totalLiquidity, Zero)
                /\ RGt(positionPercent, I(T.positionLiquidityPercent))
        THEN [mustFlag |-> TRUE,
              condition |-> "Position is " \o toFixed1(positionPercent)
                            \o "% of market liquidity"]
        ELSE [mustFlag |-> FALSE, condition |-> UNDEFINED]

\* The factor pushed for a feature and the cutoff its score must exceed.
FactorCutoff ==
    [tradeSizeVsMedian |-> R(7, 10),
     tradeSizeVsDepth |-> R(5, 10),
     aggressiveness |-> R(7, 10),
     walletBurst |-> R(5, 10),
     positionConcentration |-> R(3, 10),
     rampSpeed |-> R(5, 10),
     walletFreshness |-> R(7, 10),
     dollarValue |-> R(7, 10)]

FactorText ==
    [tradeSizeVsMedian |-> "Trade significantly larger than market median",
     tradeSizeVsDepth |-> "Trade consumes substantial orderbook depth",
     aggressiveness |-> "Aggressive execution (crossing spread)",
     walletBurst |-> "Rapid trading activity from wallet",
     positionConcentration |-> "High position concentration",
     rampSpeed |-> "Fast position accumulation",
     walletFreshness |-> "New or recently active wallet",
     dollarValue |-> "Large absolute trade value"]

primaryReasonMap ==
    [tradeSizeVsMedian |-> "Unusually large trade size",
     tradeSizeVsDepth |-> "Trade consumes significant liquidity",
     aggressiveness |-> "Aggressive trade execution",
     walletBurst |-> "Burst of trading activity",
     positionConcentration |-> "Concentrated position",
     rampSpeed |-> "Rapid position building",
     walletFreshness |-> "New wallet activity",
     dollarValue |-> "High-value trade"]

\* Mutant: a feature exactly at its cutoff is reported as a factor.
RECURSIVE PushFactors_atCutoff(_, _)
PushFactors_atCutoff(features, n) ==
    IF n = 0 THEN <<>>
    ELSE LET key == FeatureOrder[n]
         IN  IF RGe(features[key], FactorCutoff[key])
             THEN Append(PushFactors_atCutoff(features, n - 1), FactorText[key])
             ELSE PushFactors_atCutoff(features, n - 1)

\* The eight `if (features.x > cutoff) factors.push(...)` statements, in order.
RECURSIVE PushFactors(_, _)
PushFactors(features, n) ==
    IF n = 0 THEN <<>>
    ELSE LET key == FeatureOrder[n]
         IN  IF RGt(features[key], FactorCutoff[key])
             THEN Append(PushFactors(features, n - 1), FactorText[key])
             ELSE PushFactors(features, n - 1)

\* Array.prototype.sort((a, b) => b.weighted - a.weighted): a stable sort,
\* descending by weighted.
\* Mutant: an unstable sort that puts the later of two equal entries first.
RECURSIVE InsertDesc_laterFirst(_, _)
InsertDesc_laterFirst(e, s) ==
    IF s = <<>> THEN <<e>>
    ELSE IF RGe(e.weighted, Head(s).weighted) THEN <<e>> \o s
    ELSE <<Head(s)>> \o InsertDesc_laterFirst(e, Tail(s))

RECURSIVE InsertDesc(_, _)
InsertDesc(e, s) ==
    IF s = <<>> THEN <<e>>
    ELSE IF RGt(e.weighted, Head(s).weighted) THEN <<e>> \o s
    ELSE <<Head(s)>> \o InsertDesc(e, Tail(s))

RECURSIVE SortDesc(_, _)
SortDesc(entries, n) ==
    IF n = 0 THEN <<>>
    ELSE InsertDesc(entries[n], SortDesc(entries, n - 1))

weightedScores(features) ==
    LET entries == [i \in 1..Len(FeatureOrder) |->
                       [key |-> FeatureOrder[i],
                        weighted |-> RMul(features[FeatureOrder[i]],
                                          weights[FeatureOrder[i]])]]
    IN  SortDesc(entries, Len(entries))

generateReasons(features, mustFlagResult) ==
    LET primaryKey == weightedScores(features)[1].key
    IN  [primary |->
             IF mustFlagResult.mustFlag /\ mustFlagResult.condition # UNDEFINED
             THEN mustFlagResult.condition
             ELSE primaryReasonMap[primaryKey],
         factors |-> PushFactors(features, Len(FeatureOrder)),
         mustFlag |-> mustFlagResult.mustFlag,
         mustFlagCondition |-> mustFlagResult.condition]

\* for (const [key, weight] of Object.entries(FEATURE_WEIGHTS)) score += ...
RECURSIVE weightedSum(_, _)
weightedSum(features, n) ==
    IF n = 0 THEN Zero
    ELSE RAdd(weightedSum(features, n - 1),
              RMul(features[FeatureOrder[n]], weights[FeatureOrder[n]]))

\* Mutant: the alert decision looks at the score alone.
shouldAlert_scoreOnly(mustFlag, score, threshold) ==
    RGe(score, threshold)

\* const shouldAlert = mustFlagResult.mustFlag || score >= threshold
shouldAlert(mustFlag, score, threshold) ==
    mustFlag \/ RGe(score, threshold)

scoreTrade(in, s) ==
    LET features == extractFeatures(in)
        score == weightedSum(features, Len(FeatureOrder))
        mustFlagResult == checkMustFlag(in)
        threshold == getAlertThreshold(s)
    IN  [score |-> score,
         features |-> features,
         shouldAlert |-> shouldAlert(mustFlagResult.mustFlag, score, threshold),
         reasons |-> generateReasons(features, mustFlagResult)]

-----------------------------------------------------------------------------
(* The Feature Bank.                                                       *)

FeatureResult(name, score, rawValue, description) ==
    [name |-> name, score |-> score, rawValue |-> rawValue,
     description |-> description]

\* normalize of trade-size.ts
normalizeTradeSize(value, median) ==
    IF RLe(median, Zero) THEN Zero
    ELSE LET ratio == RDiv(value, median)
         IN  RSub(One, RDiv(One, RAdd(One, ratio)))

\* normalize of position.ts
normalizePosition(value, median) ==
    IF RLe(median, Zero) THEN Zero
    ELSE LET ratio == RDiv(value, median)
         IN  RSub(One, RDiv(One, RAdd(One, ratio)))

computeTradeSizeVsMedian(in) ==
    LET trade == in.trade
        context == in.context
        rawValue ==
            IF RGt(context.medianTradeSize, Zero)
            THEN RDiv(trade.size, context.medianTradeSize)
            ELSE IF RGt(trade.size, Zero) THEN I(10) ELSE Zero
        score == normalizeTradeSize(trade.size, context.medianTradeSize)
    IN  FeatureResult("tradeSizeVsMedian", score, rawValue,
                      "Trade significantly larger than market median")

computeTradeSizeVsDepth(in) ==
    LET trade == in.trade
        market == in.market
        relevantDepth == IF trade.side = "BUY" THEN market.askDepth ELSE market.bidDepth
        rawValue ==
            IF RGt(relevantDepth, Zero)
            THEN RDiv(trade.size, relevantDepth)
            ELSE IF RGt(trade.size, Zero) THEN One ELSE Zero
        score == RMin(rawValue, One)
    IN  FeatureResult("tradeSizeVsDepth", score, rawValue,
                      "Trade consumes substantial orderbook depth")

\* Mutant: a SELL inside the spread is measured from the bid, like a BUY.
aggressivenessScore_sellFromBid(trade, market) ==
    LET spread == RSub(market.bestAsk, market.bestBid)
    IN  IF RGt(spread, Zero) /\ RGt(market.bestBid, Zero) /\ RGt(market.bestAsk, Zero)
        THEN IF trade.side = "BUY"
             THEN IF RGe(trade.price, market.bestAsk)
                  THEN LET overpay == RSub(trade.price, market.bestAsk)
                       IN  RAdd(R(8, 10), RMul(R(2, 10), RMin(RDiv(overpay, spread), One)))
                  ELSE IF RGt(trade.price, market.bestBid)
                  THEN LET distanceFromBid == RSub(trade.price, market.bestBid)
                       IN  RMul(RDiv(distanceFromBid, spread), R(7, 10))
                  ELSE Zero
             ELSE IF RLe(trade.price, market.bestBid)
                  THEN LET underpay == RSub(market.bestBid, trade.price)
                       IN  RAdd(R(8, 10), RMul(R(2, 10), RMin(RDiv(underpay, spread), One)))
                  ELSE IF RLt(trade.price, market.bestAsk)
                  THEN LET distanceFromBid == RSub(trade.price, market.bestBid)
                       IN  RMul(RDiv(distanceFromBid, spread), R(7, 10))
                  ELSE Zero
        ELSE Zero

\* The score computeAggressiveness assigns before its final Math.min(score, 1).
aggressivenessScore(trade, market) ==
    LET spread == RSub(market.bestAsk, market.bestBid)
    IN  IF RGt(spread, Zero) /\ RGt(market.bestBid, Zero) /\ RGt(market.bestAsk, Zero)
        THEN IF trade.side = "BUY"
             THEN IF RGe(trade.price, market.bestAsk)
                  THEN LET overpay == RSub(trade.price, market.bestAsk)
                       IN  RAdd(R(8, 10), RMul(R(2, 10), RMin(RDiv(overpay, spread), One)))
                  ELSE IF RGt(trade.price, market.bestBid)
                  THEN LET distanceFromBid == RSub(trade.price, market.bestBid)
                       IN  RMul(RDiv(distanceFromBid, spread), R(7, 10))
                  ELSE Zero
             ELSE IF RLe(trade.price, market.bestBid)
                  THEN LET underpay == RSub(market.bestBid, trade.price)
                       IN  RAdd(R(8, 10), RMul(R(2, 10), RMin(RDiv(underpay, spread), One)))
                  ELSE IF RLt(trade.price, market.bestAsk)
                  THEN LET distanceFromAsk == RSub(market.bestAsk, trade.price)
                       IN  RMul(RDiv(distanceFromAsk, spread), R(7, 10))
                  ELSE Zero
        ELSE Zero

\* The rawValue computeAggressiveness assigns.
aggressivenessRaw(trade, market) ==
    LET spread == RSub(market.bestAsk, market.bestBid)
    IN  IF RGt(spread, Zero) /\ RGt(market.bestBid, Zero) /\ RGt(market.bestAsk, Zero)
        THEN IF trade.side = "BUY"
             THEN IF RGe(trade.price, market.bestAsk)
                  THEN RAdd(One, RDiv(RSub(trade.price, market.bestAsk), spread))
                  ELSE IF RGt(trade.price, market.bestBid)
                  THEN RDiv(RSub(trade.price, market.bestBid), spread)
                  ELSE Zero
             ELSE IF RLe(trade.price, market.bestBid)
                  THEN RAdd(One, RDiv(RSub(market.bestBid, trade.price), spread))
                  ELSE IF RLt(trade.price, market.bestAsk)
                  THEN RDiv(RSub(market.bestAsk, trade.price), spread)
                  ELSE Zero
        ELSE Zero

computeAggressiveness(in) ==
    FeatureResult("aggressiveness",
                  RMin(aggressivenessScore(in.trade, in.market), One),
                  aggressivenessRaw(in.trade, in.market),
                  "Aggressive execution (crossing spread)")

MAX_EXPECTED_TRADES_PER_HOUR == 10

computeWalletBurst(in) ==
    LET rawValue == I(in.context.walletTradesLastHour)
        score == RMin(RDiv(rawValue, I(MAX_EXPECTED_TRADES_PER_HOUR)), One)
    IN  FeatureResult("walletBurst", score, rawValue,
                      "Rapid trading activity from wallet")

computePositionConcentration(in) ==
    LET context == in.context
        rawValue ==
            IF RGt(context.totalLiquidity, Zero)
            THEN RDiv(context.walletPosition, context.totalLiquidity)
            ELSE Zero
        score == RMin(rawValue, One)
    IN  FeatureResult("positionConcentration", score, rawValue,
                      "High position concentration")

computeRampSpeed(in) ==
    LET context == in.context
        positionDelta == RAbs(RSub(context.walletPosition, context.walletPositionHourAgo))
        benchmark == RMul(context.medianTradeSize, I(5))
        rawValue ==
            IF RGt(benchmark, Zero)
            THEN RDiv(positionDelta, benchmark)
            ELSE IF RGt(positionDelta, Zero) THEN One ELSE Zero
        score == normalizePosition(positionDelta, benchmark)
    IN  FeatureResult("rampSpeed", score, rawValue, "Fast position accumulation")

computeWalletFreshness(in) ==
    LET context == in.context
    IN  IF context.walletAgeDays = NULL
        THEN FeatureResult("walletFreshness", R(5, 10), I(-1), "Wallet age unknown")
        ELSE LET ageDays == Days(context.walletAgeDays)
                 score ==
                     IF ageDays < 1 THEN One
                     ELSE IF ageDays < 7 THEN R(8, 10)
                     ELSE IF ageDays < 30 THEN R(4, 10)
                     ELSE IF ageDays < 90 THEN R(2, 10)
                     ELSE R(1, 10)
             IN  FeatureResult("walletFreshness", score, I(ageDays),
                               "New or recently active wallet")

computeDollarValue(in) ==
    LET usdValue == in.context.tradeUsdValue
        score ==
            IF RGt(usdValue, Zero)
            THEN RSub(One, RDiv(One, RAdd(One, RDiv(usdValue, I(5000)))))
            ELSE Zero
    IN  FeatureResult("dollarValue", score, usdValue, "Large absolute trade value")

\* Dates are counted in hours: getTime() is a whole number of hours and
\* ONE_DAY_MS is 24 of them.
ONE_DAY_HOURS ==
    24

computeTimingVsMarketEnd(in) ==
    IF in.market.endDate = NULL
    THEN FeatureResult("timingVsMarketEnd", Zero, I(-1),
                       "Trade close to market resolution")
    ELSE LET timeToEnd == in.market.endDate[1] - in.trade.timestamp
             daysToEnd == R(timeToEnd, ONE_DAY_HOURS)
             score ==
                 IF RLt(daysToEnd, One)
                 THEN RAdd(R(9, 10), RMul(R(1, 10), RSub(One, daysToEnd)))
                 ELSE IF RLt(daysToEnd, I(7))
                 THEN RAdd(R(5, 10),
                           RMul(R(4, 10), RSub(One, RDiv(daysToEnd, I(7)))))
                 ELSE IF RLt(daysToEnd, I(30))
                 THEN RAdd(R(2, 10),
                           RMul(R(3, 10), RSub(One, RDiv(daysToEnd, I(30)))))
                 ELSE RMul(R(1, 10),
                           RSub(One, RMin(RDiv(daysToEnd, I(90)), One)))
         IN  IF timeToEnd <= 0
             THEN FeatureResult("timingVsMarketEnd", One, Zero,
                                "Trade after market end date")
             ELSE FeatureResult("timingVsMarketEnd", RMin(score, One), daysToEnd,
                                "Trade close to market resolution")

\* Mutant: the walletFreshness slot is filled by the timing feature.
computeAllFeatures_timingInFreshnessSlot(in) ==
    [tradeSizeVsMedian |-> computeTradeSizeVsMedian(in),
     tradeSizeVsDepth |-> computeTradeSizeVsDepth(in),
     aggressiveness |-> computeAggressiveness(in),
     walletBurst |-> computeWalletBurst(in),
     positionConcentration |-> computePositionConcentration(in),
     rampSpeed |-> computeRampSpeed(in),
     walletFreshness |-> computeTimingVsMarketEnd(in),
     dollarValue |-> computeDollarValue(in)]

computeAllFeatures(in) ==
    [tradeSizeVsMedian |-> computeTradeSizeVsMedian(in),
     tradeSizeVsDepth |-> computeTradeSizeVsDepth(in),
     aggressiveness |-> computeAggressiveness(in),
     walletBurst |-> computeWalletBurst(in),
     positionConcentration |-> computePositionConcentration(in),
     rampSpeed |-> computeRampSpeed(in),
     walletFreshness |-> computeWalletFreshness(in),
     dollarValue |-> computeDollarValue(in)]

RECURSIVE computeWeightedScoreUpTo(_, _)
computeWeightedScoreUpTo(features, n) ==
    IF n = 0 THEN Zero
    ELSE RAdd(computeWeightedScoreUpTo(features, n - 1),
              RMul(features[FeatureOrder[n]].score, FEATURE_WEIGHTS[FeatureOrder[n]]))

computeWeightedScore(features) ==
    computeWeightedScoreUpTo(features, Len(FeatureOrder))

-----------------------------------------------------------------------------
(* Inputs.  Prices are hundredths; sizes, positions and USD values are     *)
(* whole numbers.  Each block lists the cases on both sides of every       *)
(* comparison the code makes on its fields.                                *)

P(n) ==
    R(n, 100)

Sides ==
    {"BUY", "SELL"}

\* <<bestBid, bestAsk, price>>: a 0.50 / 0.55 book with prices below, at, inside
\* and beyond it, and books with no spread, no bid, and a crossed spread.
BookCases ==
    {<<P(50), P(55), P(p)>> : p \in {10, 45, 50, 52, 55, 57, 60, 90}}
    \cup {<<P(50), P(50), P(60)>>, <<Zero, P(55), P(60)>>, <<P(55), P(50), P(60)>>}

\* <<size, bidDepth, askDepth, medianTradeSize>>
SizeCases ==
    {<<I(0), I(500), I(500), I(0)>>,
     <<I(100), I(500), I(2000), I(100)>>,
     <<I(1000), I(500), I(2000), I(100)>>,
     <<I(1000), I(0), I(0), I(0)>>}

\* <<tradeUsdValue, walletAgeDays>>
UsdAgeCases ==
    {<<I(0), NULL>>, <<I(0), <<0>> >>, <<I(10000), <<1>> >>,
     <<I(12000), <<3>> >>, <<I(12000), <<7>> >>, <<I(12000), NULL>>,
     <<I(25000), <<30>> >>, <<I(26000), <<120>> >>, <<I(26000), <<3>> >>,
     <<I(0), <<90>> >>}

\* <<walletPosition, walletPositionHourAgo, totalLiquidity, walletTradesLastHour>>
PositionCases ==
    {<<I(0), I(0), I(0), 0>>,
     <<I(0), I(0), I(1000), 6>>,
     <<I(-50), I(0), I(1000), 0>>,
     <<I(250), I(250), I(5000), 5>>,
     <<I(300), I(100), I(5000), 15>>,
     <<I(2000), I(0), I(1000), 10>>,
     <<I(100000), I(0), I(1000000), 1>>,
     <<I(0), I(100000), I(1000), 0>>}

MakeInput(side, b, z, u, w) ==
    [trade |-> [side |-> side, price |-> b[3], size |-> z[1]],
     market |-> [bestBid |-> b[1], bestAsk |-> b[2],
                 bidDepth |-> z[2], askDepth |-> z[3]],
     context |-> [medianTradeSize |-> z[4],
                  walletPosition |-> w[1],
                  walletPositionHourAgo |-> w[2],
                  walletTradesLastHour |-> w[4],
                  totalLiquidity |-> w[3],
                  walletAgeDays |-> u[2],
                  tradeUsdValue |-> u[1]]]

Inputs ==
    {MakeInput(side, b, z, u, w) :
        side \in Sides, b \in BookCases, z \in SizeCases,
        u \in UsdAgeCases, w \in PositionCases}

Sensitivities ==
    {Zero, DEFAULT_ALERT_SENSITIVITY, One}

\* <<value, median>> pairs for normalize; no value equals -median.
NormValues ==
    {I(0), I(1), I(50), I(100), I(200), I(1000), I(5000), I(25000)}

NormMedians ==
    {I(-40), I(0), I(1), I(100), I(200), I(500), I(5000)}

NormInputs ==
    NormValues \X NormMedians

IdleInput ==
    MakeInput("BUY", <<P(50), P(55), P(52)>>, <<I(0), I(500), I(500), I(0)>>,
              <<I(0), NULL>>, <<I(0), I(0), I(0), 0>>)

-----------------------------------------------------------------------------
(* The scorer and the Feature Bank applied to one input.                   *)

Init ==
    /\ input \in Inputs
    /\ sensitivity = DEFAULT_ALERT_SENSITIVITY
    /\ result = NoResult
    /\ evals = 0
    /\ bank = NoResult
    /\ bankScore = NoResult
    /\ normIn = <<Zero, Zero>>
    /\ normOut = NoResult
    /\ weights = FEATURE_WEIGHTS
    /\ weightsValid = NoResult
    /\ timing = NoResult
    /\ PositionsIdle
    /\ ServicesIdle

\* scoreTrade(input, s)
ScoreTrade(s) ==
    /\ evals < MaxEvals
    /\ result' = scoreTrade(input, s)
    /\ sensitivity' = s
    /\ evals' = evals + 1
    /\ UNCHANGED <<input, bank, bankScore, normIn, normOut,
                   weights, weightsValid, timing, positionVars, serviceVars>>

\* computeAllFeatures(input)
ComputeAllFeatures ==
    /\ bank = NoResult
    /\ bank' = computeAllFeatures(input)
    /\ UNCHANGED <<input, sensitivity, result, evals, bankScore, normIn, normOut,
                   weights, weightsValid, timing, positionVars, serviceVars>>

\* computeWeightedScore(bank)
ComputeWeightedScore ==
    /\ bank # NoResult
    /\ bankScore = NoResult
    /\ bankScore' = [score |-> computeWeightedScore(bank)]
    /\ UNCHANGED <<input, sensitivity, result, evals, bank, normIn, normOut,
                   weights, weightsValid, timing, positionVars, serviceVars>>

Next ==
    \/ \E s \in Sensitivities : ScoreTrade(s)
    \/ ComputeAllFeatures
    \/ ComputeWeightedScore

Spec ==
    Init /\ [][Next]_vars

-----------------------------------------------------------------------------
(* The three copies of normalize applied to one <<value, median>>.         *)

InitNormalize ==
    /\ normIn \in NormInputs
    /\ normOut = NoResult
    /\ input = IdleInput
    /\ sensitivity = DEFAULT_ALERT_SENSITIVITY
    /\ result = NoResult
    /\ evals = 0
    /\ bank = NoResult
    /\ bankScore = NoResult
    /\ weights = FEATURE_WEIGHTS
    /\ weightsValid = NoResult
    /\ timing = NoResult
    /\ PositionsIdle
    /\ ServicesIdle

Normalize ==
    /\ normOut = NoResult
    /\ normOut' = [tradeSize |-> normalizeTradeSize(normIn[1], normIn[2]),
                   position |-> normalizePosition(normIn[1], normIn[2]),
                   engine |-> normalizeEngine(normIn[1], normIn[2])]
    /\ UNCHANGED <<input, sensitivity, result, evals, bank, bankScore, normIn,
                   weights, weightsValid, timing, positionVars, serviceVars>>

NextNormalize ==
    Normalize

SpecNormalize ==
    InitNormalize /\ [][NextNormalize]_vars

-----------------------------------------------------------------------------
(* The scorer and the Feature Bank on inputs that carry the trade's        *)
(* timestamp and the market's end date, and the timing feature on its own. *)

\* <<trade.timestamp, market.endDate>>: no end date, end date at and before
\* the trade, and 12 hours, 3, 10, 45 and 120 days after it.
TimingCases ==
    {<<100, NULL>>, <<100, <<100>>>>, <<100, <<90>>>>, <<100, <<112>>>>,
     <<100, <<172>>>>, <<100, <<340>>>>, <<100, <<1180>>>>, <<100, <<2980>>>>,
     <<50, <<112>>>>}

WithTiming(in, tc) ==
    [trade |-> [side |-> in.trade.side, price |-> in.trade.price,
                size |-> in.trade.size, timestamp |-> tc[1]],
     market |-> [bestBid |-> in.market.bestBid, bestAsk |-> in.market.bestAsk,
                 bidDepth |-> in.market.bidDepth, askDepth |-> in.market.askDepth,
                 endDate |-> tc[2]],
     context |-> in.context]

TimingInputs ==
    {WithTiming(MakeInput(side, b, <<I(1000), I(500), I(2000), I(100)>>,
                          <<I(12000), <<3>>>>, w), tc) :
        side \in Sides, b \in BookCases,
        w \in {<<I(250), I(250), I(5000), 5>>, <<I(2000), I(0), I(1000), 10>>},
        tc \in TimingCases}

InitTiming ==
    /\ input \in TimingInputs
    /\ sensitivity = DEFAULT_ALERT_SENSITIVITY
    /\ result = NoResult
    /\ evals = 0
    /\ bank = NoResult
    /\ bankScore = NoResult
    /\ normIn = <<Zero, Zero>>
    /\ normOut = NoResult
    /\ weights = FEATURE_WEIGHTS
    /\ weightsValid = NoResult
    /\ timing = NoResult
    /\ PositionsIdle
    /\ ServicesIdle

\* computeTimingVsMarketEnd(input)
ComputeTimingVsMarketEnd ==
    /\ timing = NoResult
    /\ timing' = computeTimingVsMarketEnd(input)
    /\ UNCHANGED <<input, sensitivity, result, evals, bank, bankScore, normIn, normOut,
                   weights, weightsValid, positionVars, serviceVars>>

NextTiming ==
    \/ \E s \in Sensitivities : ScoreTrade(s)
    \/ ComputeAllFeatures
    \/ ComputeWeightedScore
    \/ ComputeTimingVsMarketEnd

SpecTiming ==
    InitTiming /\ [][NextTiming]_vars

-----------------------------------------------------------------------------
(* The engine loaded with an edited weight table.  Loading the            *)
(* configuration module only defines its constants; scoreTrade reads the   *)
(* table as it is.                                                         *)

\* The shipped table, one with aggressiveness raised to 0.25 (sum 1.05), one
\* with dollarValue dropped to 0 (sum 0.95) and one with both edits (sum 1).
WeightTables ==
    {FEATURE_WEIGHTS,
     [FEATURE_WEIGHTS EXCEPT !.aggressiveness = R(25, 100)],
     [FEATURE_WEIGHTS EXCEPT !.dollarValue = Zero],
     [FEATURE_WEIGHTS EXCEPT !.aggressiveness = R(25, 100), !.dollarValue = Zero]}

ConfigInputs ==
    {MakeInput(side, b, <<I(1000), I(500), I(2000), I(100)>>, <<I(12000), <<3>>>>, w) :
        side \in Sides, b \in BookCases, w \in PositionCases}

InitConfig ==
    /\ weights \in WeightTables
    /\ weightsValid = NoResult
    /\ timing = NoResult
    /\ PositionsIdle
    /\ ServicesIdle
    /\ input \in ConfigInputs
    /\ sensitivity = DEFAULT_ALERT_SENSITIVITY
    /\ result = NoResult
    /\ evals = 0
    /\ bank = NoResult
    /\ bankScore = NoResult
    /\ normIn = <<Zero, Zero>>
    /\ normOut = NoResult

\* validateWeights()
ValidateWeights ==
    /\ weightsValid = NoResult
    /\ weightsValid' = [valid |-> validateWeights]
    /\ UNCHANGED <<input, sensitivity, result, evals, bank, bankScore, normIn, normOut,
                   weights, timing, positionVars, serviceVars>>

NextConfig ==
    \/ ValidateWeights
    \/ \E s \in Sensitivities : ScoreTrade(s)

SpecConfig ==
    InitConfig /\ [][NextConfig]_vars

-----------------------------------------------------------------------------
(* The must-flag conditions as the specification words them.               *)

CondSingleTrade(in) ==
    RGt(in.context.tradeUsdValue, I(25000))

CondHourlyAccumulation(in) ==
    RGt(RMul(RAbs(RSub(in.context.walletPosition, in.context.walletPositionHourAgo)),
             in.trade.price),
        I(50000))

CondNewWallet(in) ==
    /\ in.context.walletAgeDays # NULL
    /\ Days(in.context.walletAgeDays) < 7
    /\ RGt(in.context.tradeUsdValue, I(10000))

CondLiquidityShare(in) ==
    /\ RGt(in.context.totalLiquidity, Zero)
    /\ RGt(RDiv(in.context.walletPosition, in.context.totalLiquidity), R(5, 100))

AnyMustFlagCondition(in) ==
    \/ CondSingleTrade(in)
    \/ CondHourlyAccumulation(in)
    \/ CondNewWallet(in)
    \/ CondLiquidityShare(in)

Scored ==
    result # NoResult

\* C1: whenever at least one must-flag condition holds for the input, scoreTrade
\* returns shouldAlert = true, whatever the sensitivity and however low the score.
C1_MustFlagForcesAlert ==
    (Scored /\ AnyMustFlagCondition(input)) => result.shouldAlert

\* A must-flagged trade whose weighted score is 0, below every threshold, alerts.
C1_Witness ==
    /\ Scored
    /\ AnyMustFlagCondition(input)
    /\ result.score = Zero
    /\ RLt(result.score, getAlertThreshold(sensitivity))
    /\ result.shouldAlert

\* C2: shouldAlert is true exactly when mustFlag is true or the score reaches
\* 0.25 + 0.5 * sensitivity; that threshold is 0.25 at 0, 0.40 at 0.3, 0.75 at 1
\* and lies in [0.25, 0.75].
C2_AlertDecision ==
    Scored =>
        LET threshold == RAdd(R(1, 4), RMul(R(1, 2), sensitivity))
        IN  /\ result.shouldAlert <=>
                   (result.reasons.mustFlag \/ RGe(result.score, threshold))
            /\ getAlertThreshold(sensitivity) = threshold
            /\ RLe(R(1, 4), threshold) /\ RLe(threshold, R(3, 4))
            /\ (sensitivity = Zero => threshold = R(25, 100))
            /\ (sensitivity = R(3, 10) => threshold = R(40, 100))
            /\ (sensitivity = One => threshold = R(75, 100))

\* A trade that is not must-flagged alerts at the default sensitivity because its
\* score reaches 0.40, and one step lower would not (score below 0.75).
C2_Witness ==
    /\ Scored
    /\ sensitivity = R(3, 10)
    /\ ~result.reasons.mustFlag
    /\ RGe(result.score, R(40, 100))
    /\ RLt(result.score, R(75, 100))
    /\ result.shouldAlert


NonNegative(x) ==
    RGe(x, Zero)

InUnit(x) ==
    RGe(x, Zero) /\ RLe(x, One)

\* Magnitude fields non-negative, and trade price, bestBid, bestAsk in [0, 1].
InputInRange(in) ==
    /\ NonNegative(in.trade.size)
    /\ NonNegative(in.market.bidDepth) /\ NonNegative(in.market.askDepth)
    /\ NonNegative(in.context.medianTradeSize)
    /\ NonNegative(in.context.walletPosition)
    /\ NonNegative(in.context.walletPositionHourAgo)
    /\ NonNegative(in.context.totalLiquidity)
    /\ NonNegative(in.context.tradeUsdValue)
    /\ in.context.walletTradesLastHour >= 0
    /\ (in.context.walletAgeDays # NULL => Days(in.context.walletAgeDays) >= 0)
    /\ InUnit(in.trade.price) /\ InUnit(in.market.bestBid) /\ InUnit(in.market.bestAsk)

\* C3: for every input with non-negative magnitudes and prices in [0, 1], the
\* overall score scoreTrade returns lies in [0, 1].
C3_ScoreInUnitInterval ==
    (Scored /\ InputInRange(input)) => InUnit(result.score)

\* C4: each of the eight Feature Bank functions returns a score in [0, 1] for any
\* input, negative values and a null walletAgeDays included.
C4_FeatureScoresInUnitInterval ==
    bank # NoResult => \A f \in FeatureNames : InUnit(bank[f].score)

\* C5: mustFlag is true exactly when one of the four conditions holds, and the
\* reported condition text is that of the first holding one in the order
\* single trade, hourly accumulation, new wallet, liquidity share.
C5_MustFlagConditions ==
    Scored =>
        LET r == result.reasons
            c == input.context
        IN  /\ r.mustFlag <=> AnyMustFlagCondition(input)
            /\ CondSingleTrade(input) => r.mustFlagCondition = "Single trade > $25,000"
            /\ (~CondSingleTrade(input) /\ CondHourlyAccumulation(input)) =>
                   r.mustFlagCondition = "Accumulated > $50,000 in 1 hour"
            /\ (/\ ~CondSingleTrade(input)
                /\ ~CondHourlyAccumulation(input)
                /\ CondNewWallet(input)) =>
                   r.mustFlagCondition =
                       "New wallet (" \o ToString(Days(c.walletAgeDays))
                       \o "d old) traded > $10,000"
            /\ (/\ ~CondSingleTrade(input)
                /\ ~CondHourlyAccumulation(input)
                /\ ~CondNewWallet(input)
                /\ CondLiquidityShare(input)) =>
                   r.mustFlagCondition =
                       "Position is "
                       \o toFixed1(RMul(RDiv(c.walletPosition, c.totalLiquidity), I(100)))
                       \o "% of market liquidity"

\* All four conditions hold at once and the single-trade text is reported.
C5_Witness ==
    /\ Scored
    /\ CondSingleTrade(input)
    /\ CondHourlyAccumulation(input)
    /\ CondNewWallet(input)
    /\ CondLiquidityShare(input)
    /\ result.reasons.mustFlag
    /\ result.reasons.mustFlagCondition = "Single trade > $25,000"

Weighted(features, k) ==
    RMul(features[k], weights[k])

\* The first position in weight-table order whose score * weight is the largest.
FirstMaxIndex(features) ==
    CHOOSE i \in 1..Len(FeatureOrder) :
        /\ \A j \in 1..Len(FeatureOrder) :
               RLe(Weighted(features, FeatureOrder[j]), Weighted(features, FeatureOrder[i]))
        /\ \A j \in 1..(i - 1) :
               RLt(Weighted(features, FeatureOrder[j]), Weighted(features, FeatureOrder[i]))

\* C6: reasons.primary is the must-flag condition text when must-flagged, else
\* the reason of the feature with the largest score * weight, the first in
\* weight-table order on a tie; mustFlagCondition is present exactly when
\* mustFlag is true.
C6_PrimaryReason ==
    Scored =>
        LET r == result.reasons
        IN  /\ r.mustFlag => r.primary = r.mustFlagCondition
            /\ ~r.mustFlag =>
                   r.primary = primaryReasonMap[FeatureOrder[FirstMaxIndex(result.features)]]
            /\ (r.mustFlagCondition # UNDEFINED) <=> r.mustFlag

\* Not must-flagged, tradeSizeVsMedian and walletBurst tie for the largest
\* product, and the earlier one, tradeSizeVsMedian, gives the primary reason.
C6_Witness ==
    /\ Scored
    /\ ~result.reasons.mustFlag
    /\ FirstMaxIndex(result.features) = 1
    /\ Weighted(result.features, "walletBurst")
           = Weighted(result.features, "tradeSizeVsMedian")
    /\ RGt(Weighted(result.features, "tradeSizeVsMedian"), Zero)
    /\ result.reasons.primary = "Unusually large trade size"


\* The notability cutoffs as the specification lists them.
ClaimedCutoff ==
    [tradeSizeVsMedian |-> R(7, 10),
     tradeSizeVsDepth |-> R(5, 10),
     aggressiveness |-> R(7, 10),
     walletBurst |-> R(5, 10),
     positionConcentration |-> R(3, 10),
     rampSpeed |-> R(5, 10),
     walletFreshness |-> R(7, 10),
     dollarValue |-> R(7, 10)]

Notable(features) ==
    SelectSeq(FeatureOrder, LAMBDA k : RGt(features[k], ClaimedCutoff[k]))

ExpectedFactors(features) ==
    [i \in 1..Len(Notable(features)) |-> FactorText[Notable(features)[i]]]

FactorsMatchCutoffs ==
    Scored => result.reasons.factors = ExpectedFactors(result.features)

\* A further scoreTrade call on the same input, at whatever sensitivity, returns
\* the same factors, score and feature values.
RescoreKeepsFactors ==
    (Scored /\ result' # NoResult) =>
        /\ result'.reasons.factors = result.reasons.factors
        /\ result'.score = result.score
        /\ result'.features = result.features

\* C7: reasons.factors lists, in weight-table order, the description of exactly
\* the features whose score strictly exceeds their fixed cutoff, must-flagged or
\* not; and for a fixed input the factors, the score and the feature values are
\* the same for every sensitivity.
C7_FactorsFixedCutoffs ==
    []FactorsMatchCutoffs /\ [][RescoreKeepsFactors]_vars

\* A must-flagged trade scored a second time, now at sensitivity 1, lists two or
\* more factors while a feature sitting exactly at its cutoff is left out.
C7_Witness ==
    /\ Scored
    /\ evals = 2
    /\ sensitivity = One
    /\ result.reasons.mustFlag
    /\ Len(result.reasons.factors) >= 2
    /\ result.features.tradeSizeVsDepth = R(5, 10)
    /\ \A i \in 1..Len(result.reasons.factors) :
           result.reasons.factors[i] # "Trade consumes substantial orderbook depth"

\* The BUY score as the specification gives it.
ClaimedBuyScore(price, bestBid, bestAsk) ==
    LET spread == RSub(bestAsk, bestBid)
    IN  IF RLe(spread, Zero) \/ RLe(bestBid, Zero) \/ RLe(bestAsk, Zero) THEN Zero
        ELSE IF RGe(price, bestAsk)
        THEN RAdd(R(8, 10), RMul(R(2, 10), RMin(One, RDiv(RSub(price, bestAsk), spread))))
        ELSE IF RGt(price, bestBid)
        THEN RDiv(RMul(R(7, 10), RSub(price, bestBid)), spread)
        ELSE Zero

\* C8: computeAggressiveness scores 0 without a positive spread, bid and ask;
\* a BUY scores 0.8 + 0.2 * min(1, (price - ask) / spread) at or above the ask,
\* 0.7 * (price - bid) / spread inside the spread and 0 at or below the bid; a
\* SELL at price p scores what a BUY at bid + ask - p scores (the mirror image);
\* a BUY at 0.60 against 0.50 / 0.55 scores 1.
C8_Aggressiveness ==
    bank # NoResult =>
        LET t == input.trade
            m == input.market
            score == bank.aggressiveness.score
        IN  /\ t.side = "BUY" => score = ClaimedBuyScore(t.price, m.bestBid, m.bestAsk)
            /\ t.side = "SELL" =>
                   score = ClaimedBuyScore(RSub(RAdd(m.bestBid, m.bestAsk), t.price),
                                           m.bestBid, m.bestAsk)
            /\ (/\ t.side = "BUY" /\ t.price = P(60)
                /\ m.bestBid = P(50) /\ m.bestAsk = P(55)) => score = One

\* A SELL at 0.52 inside the 0.50 / 0.55 book scores 0.7 * 0.03 / 0.05 = 0.42.
C8_Witness ==
    /\ bank # NoResult
    /\ input.trade.side = "SELL"
    /\ input.trade.price = P(52)
    /\ input.market.bestBid = P(50)
    /\ input.market.bestAsk = P(55)
    /\ bank.aggressiveness.score = R(42, 100)

\* The wallet freshness steps as the specification gives them.
ClaimedFreshness(age) ==
    IF age = NULL THEN R(5, 10)
    ELSE IF Days(age) < 1 THEN One
    ELSE IF Days(age) < 7 THEN R(8, 10)
    ELSE IF Days(age) < 30 THEN R(4, 10)
    ELSE IF Days(age) < 90 THEN R(2, 10)
    ELSE R(1, 10)

\* C9: the walletFreshness value, as computeWalletFreshness returns it and as
\* scoreTrade reports it, is 1.0 / 0.8 / 0.4 / 0.2 / 0.1 by age band and 0.5 for
\* a null age.
C9_WalletFreshness ==
    /\ bank # NoResult =>
           bank.walletFreshness.score = ClaimedFreshness(input.context.walletAgeDays)
    /\ Scored =>
           result.features.walletFreshness = ClaimedFreshness(input.context.walletAgeDays)

NormalizeCopy(name, value, median) ==
    CASE name = "tradeSize" -> normalizeTradeSize(value, median)
      [] name = "position" -> normalizePosition(value, median)
      [] name = "engine" -> normalizeEngine(value, median)

\* C10: every copy of normalize returns 0 for a median <= 0 and
\* 1 - 1 / (1 + value / median) otherwise; for a median > 0 the result lies in
\* [0, 1), grows strictly with the value, and is 0.5 when value = median.
C10_Normalize ==
    normOut # NoResult =>
        \A name \in {"tradeSize", "position", "engine"} :
            LET v == normIn[1]
                m == normIn[2]
                out == normOut[name]
            IN  /\ RLe(m, Zero) => out = Zero
                /\ RGt(m, Zero) =>
                       /\ out = RSub(One, RDiv(One, RAdd(One, RDiv(v, m))))
                       /\ RGe(out, Zero) /\ RLt(out, One)
                       /\ v = m => out = R(1, 2)
                       /\ (v = I(1000) /\ m = I(100)) => out = RSub(One, R(1, 11))
                       /\ \A v2 \in NormValues :
                              RLt(v, v2) => RLt(out, NormalizeCopy(name, v2, m))


-----------------------------------------------------------------------------
(* C11: a weight table that does not sum to 1 within 0.001 stops the       *)
(* engine at configuration load, so every trade that has been scored was   *)
(* scored with a balanced table.                                           *)

WeightsBalanced ==
    LET sum == RAdd(RAdd(RAdd(weights.tradeSizeVsMedian, weights.tradeSizeVsDepth),
                         RAdd(weights.aggressiveness, weights.walletBurst)),
                    RAdd(RAdd(weights.positionConcentration, weights.rampSpeed),
                         RAdd(weights.walletFreshness, weights.dollarValue)))
    IN  /\ RLe(R(999, 1000), sum)
        /\ RLe(sum, R(1001, 1000))

\* C11: no trade is ever scored with an unbalanced weight table.
C11_NoScoreWithUnbalancedWeights ==
    Scored => WeightsBalanced

-----------------------------------------------------------------------------
(* C13: lowering the sensitivity never removes an alert.                   *)

Rescored ==
    /\ result # NoResult
    /\ result' # NoResult
    /\ evals' = evals + 1

\* A call at sensitivity hi alerted (or not) as alertHi, a call on the same
\* input at sensitivity lo as alertLo.
MonotoneAlerts(lo, alertLo, hi, alertHi) ==
    RLe(lo, hi) =>
        /\ alertHi => alertLo
        /\ RLe(getAlertThreshold(lo), getAlertThreshold(hi))
        /\ RLe(calculateThreshold(lo), calculateThreshold(hi))

\* C13: for one input and sensitivities s1 <= s2, an alert at s2 is an alert
\* at s1, whichever of the two calls comes first.
C13_SensitivityMonotone ==
    [][Rescored =>
          /\ MonotoneAlerts(sensitivity', result'.shouldAlert,
                            sensitivity, result.shouldAlert)
          /\ MonotoneAlerts(sensitivity, result.shouldAlert,
                            sensitivity', result'.shouldAlert)]_vars

\* Re-scored at sensitivity 0, not must-flag, alerting with a score that stays
\* below the bar of sensitivity 1.
C13_Witness ==
    /\ Scored
    /\ evals = 2
    /\ sensitivity = Zero
    /\ result.shouldAlert
    /\ ~result.reasons.mustFlag
    /\ RLt(result.score, getAlertThreshold(One))

-----------------------------------------------------------------------------
(* C14: the timing-vs-market-end feature is not part of the default score. *)

-----------------------------------------------------------------------------
(* Decimal strings and the numbers parsed from them.  A string is the      *)
(* sequence of its characters.  A number is an exact rational <<n, d>> or  *)
(* NaN; the strings of the trades below have no exponent part and at most  *)
(* three decimals, so every sum is a finite decimal.                       *)

NaN ==
    <<0, 0>>

DigitChars ==
    <<"0", "1", "2", "3", "4", "5", "6", "7", "8", "9">>

IsDigit(c) ==
    \E i \in 1..Len(DigitChars) : DigitChars[i] = c

DigitValue(c) ==
    (CHOOSE i \in 1..Len(DigitChars) : DigitChars[i] = c) - 1

RECURSIVE Pow10(_)
Pow10(k) ==
    IF k = 0 THEN 1 ELSE 10 * Pow10(k - 1)

\* Index of the first character at or after i that is not a digit.
RECURSIVE DigitsEnd(_, _)
DigitsEnd(s, i) ==
    IF i <= Len(s) /\ IsDigit(s[i]) THEN DigitsEnd(s, i + 1) ELSE i

\* Value of the digits s[i], ..., s[j - 1].
RECURSIVE DigitsValue(_, _, _)
DigitsValue(s, i, j) ==
    IF j <= i THEN 0
    ELSE 10 * DigitsValue(s, i, j - 1) + DigitValue(s[j - 1])

\* parseFloat: an optional sign, digits, an optional point and digits; the
\* longest such prefix is the value, and NaN if it has no digit.
parseFloat(s) ==
    LET signed == Len(s) >= 1 /\ s[1] \in {"-", "+"}
        start == IF signed THEN 2 ELSE 1
        intEnd == DigitsEnd(s, start)
        hasPoint == intEnd <= Len(s) /\ s[intEnd] = "."
        fracEnd == IF hasPoint THEN DigitsEnd(s, intEnd + 1) ELSE intEnd
        fracLen == IF hasPoint THEN fracEnd - (intEnd + 1) ELSE 0
        magnitude ==
            R(DigitsValue(s, start, intEnd) * Pow10(fracLen)
                  + (IF hasPoint THEN DigitsValue(s, intEnd + 1, fracEnd) ELSE 0),
              Pow10(fracLen))
    IN  IF (intEnd - start) + fracLen = 0 THEN NaN
        ELSE IF signed /\ s[1] = "-" THEN RSub(Zero, magnitude)
        ELSE magnitude

RECURSIVE IntChars(_)
IntChars(n) ==
    IF n < 10 THEN <<DigitChars[n + 1]>>
    ELSE Append(IntChars(n \div 10), DigitChars[(n % 10) + 1])

\* The k-digit fraction m / 10^k without its trailing zeros.
RECURSIVE FracChars(_, _)
FracChars(m, k) ==
    IF m = 0 THEN <<>>
    ELSE <<DigitChars[(m \div Pow10(k - 1)) + 1]>> \o FracChars(m % Pow10(k - 1), k - 1)

\* Least k >= from with d dividing 10^k.
RECURSIVE DecimalPlaces(_, _)
DecimalPlaces(d, from) ==
    IF Pow10(from) % d = 0 THEN from ELSE DecimalPlaces(d, from + 1)

\* Number.prototype.toString for NaN and for finite decimals.
toString(x) ==
    IF x = NaN THEN <<"N", "a", "N">>
    ELSE LET k == DecimalPlaces(x[2], 0)
             scaled == IAbs(x[1]) * (Pow10(k) \div x[2])
             whole == IntChars(scaled \div Pow10(k))
             frac == FracChars(scaled % Pow10(k), k)
             digits == IF frac = <<>> THEN whole ELSE whole \o <<".">> \o frac
         IN  IF x[1] < 0 THEN <<"-">> \o digits ELSE digits

NumAdd(a, b) ==
    IF a = NaN \/ b = NaN THEN NaN ELSE RAdd(a, b)

NumSub(a, b) ==
    IF a = NaN \/ b = NaN THEN NaN ELSE RSub(a, b)

NumAbs(a) ==
    IF a = NaN THEN NaN ELSE RAbs(a)

\* a >= b and a > b are false when either side is NaN.
NumGe(a, b) ==
    a # NaN /\ b # NaN /\ RGe(a, b)

NumGt(a, b) ==
    a # NaN /\ b # NaN /\ RGt(a, b)

-----------------------------------------------------------------------------
(* Trade ingestion and the position polling service.                       *)

ZERO_ADDRESS ==
    "0x0000000000000000000000000000000000000000"

\* String.prototype.toUpperCase on the side strings the CLOB sends.
toUpperCase(side) ==
    CASE side = "buy" -> "BUY"
      [] side = "sell" -> "SELL"
      [] OTHER -> side

\* match_time is kept as the whole number of seconds it denotes.
normalizeTrade(clob) ==
    [id |-> clob.id,
     marketId |-> clob.market,
     tokenId |-> clob.asset_id,
     maker |-> clob.maker_address,
     taker |-> clob.owner,
     side |-> toUpperCase(clob.side),
     size |-> clob.size,
     price |-> clob.price,
     timestamp |-> clob.match_time]

toDbTrade(normalized) ==
    [id |-> normalized.id,
     marketId |-> normalized.marketId,
     tokenId |-> normalized.tokenId,
     maker |-> normalized.maker,
     taker |-> normalized.taker,
     side |-> normalized.side,
     size |-> normalized.size,
     price |-> normalized.price,
     timestamp |-> normalized.timestamp]

\* insertTrade: the document is written unless one with its id exists.
insertTrade(collection, trade) ==
    IF \E t \in collection : t.id = trade.id
    THEN collection
    ELSE collection \cup {trade}

\* orderBy("timestamp", "desc")
RECURSIVE newestFirst(_)
newestFirst(docs) ==
    IF docs = {} THEN <<>>
    ELSE LET t == CHOOSE t \in docs : \A u \in docs : u.timestamp <= t.timestamp
         IN  <<t>> \o newestFirst(docs \ {t})

getTradesByMarket(marketId, limit) ==
    LET matching == newestFirst({t \in trades : t.marketId = marketId})
    IN  SubSeq(matching, 1, IF limit < Len(matching) THEN limit ELSE Len(matching))

\* new Map()
EmptyMap ==
    <<>>

\* Map.prototype.set
MapSet(m, k, v) ==
    [x \in (DOMAIN m) \cup {k} |-> IF x = k THEN v ELSE m[x]]

\* Mutant: the maker is moved the same way as the taker.
effectiveBuy_sameForMaker(isTaker, side) ==
    side = "BUY"

effectiveBuy(isTaker, side) ==
    \/ isTaker /\ side = "BUY"
    \/ ~isTaker /\ side = "SELL"

\* if (!wallet || wallet === "0x0000...0000") return;
skipsWallet(wallet) ==
    wallet = "" \/ wallet = ZERO_ADDRESS

\* updatePosition past the wallet check.
applyLeg(positions, params) ==
    LET walletPositions ==
            IF params.wallet \in DOMAIN positions
            THEN positions[params.wallet]
            ELSE EmptyMap
        position ==
            IF params.tokenId \in DOMAIN walletPositions
            THEN walletPositions[params.tokenId]
            ELSE [wallet |-> params.wallet,
                  tokenId |-> params.tokenId,
                  marketId |-> params.marketId,
                  position |-> <<"0">>,
                  buyVolume |-> <<"0">>,
                  sellVolume |-> <<"0">>,
                  tradeCount |-> 0,
                  avgPrice |-> NULL]
        sizeNum == parseFloat(params.size)
        priceNum == parseFloat(params.price)
        positionNum == parseFloat(position.position)
        buyVol == parseFloat(position.buyVolume)
        sellVol == parseFloat(position.sellVolume)
        buy == effectiveBuy(params.isTaker, params.side)
        updated ==
            [wallet |-> position.wallet,
             tokenId |-> position.tokenId,
             marketId |-> position.marketId,
             position |-> toString(IF buy THEN NumAdd(positionNum, sizeNum)
                                   ELSE NumSub(positionNum, sizeNum)),
             buyVolume |-> toString(IF buy THEN NumAdd(buyVol, sizeNum) ELSE buyVol),
             sellVolume |-> toString(IF buy THEN sellVol ELSE NumAdd(sellVol, sizeNum)),
             tradeCount |-> position.tradeCount + 1,
             avgPrice |-> IF buy /\ NumGt(sizeNum, Zero)
                          THEN toString(priceNum)
                          ELSE position.avgPrice]
    IN  MapSet(positions, params.wallet,
               MapSet(walletPositions, params.tokenId, updated))

\* Mutant: only the empty wallet is skipped.
updatePosition_zeroAddressKept(positions, params) ==
    IF params.wallet = "" THEN positions ELSE applyLeg(positions, params)

updatePosition(positions, params) ==
    IF skipsWallet(params.wallet) THEN positions ELSE applyLeg(positions, params)

\* The params of the n-th updatePosition call (n = 0, 1, ...) over a window:
\* the taker of each trade, then its maker.
legParams(trade, marketId, isTaker) ==
    [wallet |-> IF isTaker THEN trade.taker ELSE trade.maker,
     tokenId |-> trade.tokenId,
     marketId |-> marketId,
     side |-> trade.side,
     size |-> trade.size,
     price |-> trade.price,
     isTaker |-> isTaker]

nthLeg(w, marketId, n) ==
    legParams(w[(n \div 2) + 1], marketId, n % 2 = 0)

\* Mutant: the loop stops one call early.
loopDone_lastCallDropped(w, n) ==
    n >= 2 * Len(w) - 1

\* The for loop has made both calls for every trade.
loopDone(w, n) ==
    n >= 2 * Len(w)

RECURSIVE positionsAfter(_, _, _)
positionsAfter(w, marketId, n) ==
    IF n = 0 THEN EmptyMap
    ELSE updatePosition(positionsAfter(w, marketId, n - 1), nthLeg(w, marketId, n - 1))

computePositionsFromTrades(w, marketId) ==
    positionsAfter(w, marketId, 2 * Len(w))

\* The WalletTokenPosition objects of a map.
allPositions(positions) ==
    UNION {{positions[wallet][tokenId] : tokenId \in DOMAIN positions[wallet]} :
              wallet \in DOMAIN positions}

\* Mutant: a position of exactly the minimum size is dropped.
filterSignificantPositions_aboveOnly(positions, minPositionSize) ==
    {position \in allPositions(positions) :
        NumGt(NumAbs(parseFloat(position.position)), minPositionSize)}

\* The array is kept as the set of its elements.
filterSignificantPositions(positions, minPositionSize) ==
    {position \in allPositions(positions) :
        NumGe(NumAbs(parseFloat(position.position)), minPositionSize)}

\* avgPrice ?? undefined: the snapshot is written without the field.
NoAvgPrice ==
    <<"undefined">>

dbPosition(pos, now) ==
    [wallet |-> pos.wallet,
     marketId |-> pos.marketId,
     tokenId |-> pos.tokenId,
     position |-> pos.position,
     avgPrice |-> IF pos.avgPrice = NULL THEN NoAvgPrice ELSE pos.avgPrice,
     timestamp |-> now]

\* Mutant: the map outlives the call that filled it.
newPositionsMap_keptAcrossCalls ==
    positionsByWallet

\* const positionsByWallet = new Map()
newPositionsMap ==
    EmptyMap

-----------------------------------------------------------------------------
(* Trades arriving from the CLOB and position runs over one market.        *)

\* Largest number of documents in the trades collection.
MaxTrades == 3

\* Largest number of position runs followed.
MaxRuns == 2

MarketId ==
    "M1"

ClobTrade(id, market, token, maker, owner, side, size, price, time) ==
    [id |-> id, market |-> market, asset_id |-> token, maker_address |-> maker,
     owner |-> owner, side |-> side, size |-> size, price |-> price,
     match_time |-> time]

\* What the CLOB may send: W1 buys 5 from W2; W2 sells 3 to W1; a dust sale
\* against the zero address; a trade of exactly 0.01 with no taker; a size
\* and a price that are not numbers; a trade of another market.
ClobTrades ==
    {ClobTrade("t1", "M1", "T1", "W2", "W1", "BUY", <<"5">>, <<"0", ".", "5">>, 1),
     ClobTrade("t2", "M1", "T1", "W1", "W2", "sell", <<"3">>, <<"0", ".", "6">>, 2),
     ClobTrade("t3", "M1", "T1", ZERO_ADDRESS, "W1", "SELL",
               <<"0", ".", "0", "0", "5">>, <<"0", ".", "5">>, 3),
     ClobTrade("t4", "M1", "T2", "W2", "", "BUY",
               <<"0", ".", "0", "1">>, <<"0", ".", "5">>, 4),
     ClobTrade("t5", "M1", "T2", "W1", "W2", "BUY", <<"a", "b", "c">>, <<"0", ".", "5">>, 5),
     ClobTrade("t6", "M2", "T3", "W2", "W1", "BUY", <<"7">>, <<"0", ".", "5">>, 6),
     ClobTrade("t7", "M1", "T1", "W2", "W1", "BUY", <<"2">>, <<"n", "/", "a">>, 7)}

DEFAULT_TRADE_LIMIT ==
    1000

DEFAULT_MIN_POSITION_SIZE ==
    R(1, 100)

\* Options of the runs: the defaults, a window of two trades, and the
\* options getTopHoldersFromTrades passes.
RunOptions ==
    {[fn |-> "syncPositionsForMarket", tradeLimit |-> DEFAULT_TRADE_LIMIT,
      minPositionSize |-> DEFAULT_MIN_POSITION_SIZE],
     [fn |-> "syncPositionsForMarket", tradeLimit |-> 2,
      minPositionSize |-> DEFAULT_MIN_POSITION_SIZE],
     [fn |-> "getComputedPositions", tradeLimit |-> DEFAULT_TRADE_LIMIT,
      minPositionSize |-> DEFAULT_MIN_POSITION_SIZE],
     [fn |-> "getComputedPositions", tradeLimit |-> 2000,
      minPositionSize |-> Zero]}

ScoringIdle ==
    /\ input = IdleInput
    /\ sensitivity = DEFAULT_ALERT_SENSITIVITY
    /\ result = NoResult
    /\ evals = 0
    /\ bank = NoResult
    /\ bankScore = NoResult
    /\ normIn = <<Zero, Zero>>
    /\ normOut = NoResult
    /\ weights = FEATURE_WEIGHTS
    /\ weightsValid = NoResult
    /\ timing = NoResult

InitPositions ==
    /\ ScoringIdle
    /\ PositionsIdle
    /\ ServicesIdle

\* syncTradesForMarket on one fetched trade: normalizeTrade, toDbTrade,
\* insertTrade.  A run reads the collection once, when it starts, so trades
\* arriving during a run are taken after it.
SyncTrade(clob) ==
    /\ pc \in {"idle", "returned"}
    /\ Cardinality(trades) < MaxTrades
    /\ trades' = insertTrade(trades, toDbTrade(normalizeTrade(clob)))
    /\ UNCHANGED <<scoringVars, serviceVars, snapshots, pc, opts, window, leg, positionsByWallet,
                   legsApplied, returned, runs>>

\* syncPositionsForMarket / getComputedPositions up to the first call of
\* updatePosition; with no trade in the window they return at once.
StartRun(o) ==
    /\ pc \in {"idle", "returned"}
    /\ runs < MaxRuns
    /\ runs' = runs + 1
    /\ opts' = o
    /\ window' = getTradesByMarket(MarketId, o.tradeLimit)
    /\ leg' = 0
    /\ legsApplied' = {}
    /\ positionsByWallet' = newPositionsMap
    /\ IF window' = <<>>
       THEN /\ pc' = "returned"
            /\ returned' = IF o.fn = "syncPositionsForMarket"
                            THEN [marketId |-> MarketId, positionsInserted |-> 0]
                            ELSE [positions |-> {}]
       ELSE /\ pc' = "computing"
            /\ returned' = NoResult
    /\ UNCHANGED <<scoringVars, serviceVars, trades, snapshots>>

\* One updatePosition call of computePositionsFromTrades' loop.
UpdatePosition ==
    /\ pc = "computing"
    /\ ~loopDone(window, leg)
    /\ positionsByWallet' = updatePosition(positionsByWallet, nthLeg(window, MarketId, leg))
    /\ leg' = leg + 1
    /\ legsApplied' =
           IF positionsByWallet' = positionsByWallet
           THEN legsApplied
           ELSE legsApplied \cup {<<window[(leg \div 2) + 1].id,
                                    IF leg % 2 = 0 THEN "taker" ELSE "maker">>}
    /\ UNCHANGED <<scoringVars, serviceVars, trades, snapshots, pc, opts, window, returned, runs>>

\* syncPositionsForMarket from filterSignificantPositions to its return.
FinishSync ==
    /\ pc = "computing"
    /\ loopDone(window, leg)
    /\ opts.fn = "syncPositionsForMarket"
    /\ LET significantPositions ==
               filterSignificantPositions(positionsByWallet, opts.minPositionSize)
           dbPositions == {dbPosition(pos, runs) : pos \in significantPositions}
       IN  /\ snapshots' = snapshots \cup dbPositions
           /\ returned' = [marketId |-> MarketId,
                           positionsInserted |-> Cardinality(dbPositions)]
    /\ pc' = "returned"
    /\ UNCHANGED <<scoringVars, serviceVars, trades, opts, window, leg, positionsByWallet,
                   legsApplied, runs>>

\* getComputedPositions from filterSignificantPositions to its return.
FinishGet ==
    /\ pc = "computing"
    /\ loopDone(window, leg)
    /\ opts.fn = "getComputedPositions"
    /\ returned' = [positions |->
                       filterSignificantPositions(positionsByWallet, opts.minPositionSize)]
    /\ pc' = "returned"
    /\ UNCHANGED <<scoringVars, serviceVars, trades, snapshots, opts, window, leg, positionsByWallet,
                   legsApplied, runs>>

NextPositions ==
    \/ \E clob \in ClobTrades : SyncTrade(clob)
    \/ \E o \in RunOptions : StartRun(o)
    \/ UpdatePosition
    \/ FinishSync
    \/ FinishGet

SpecPositions ==
    InitPositions /\ [][NextPositions]_vars

-----------------------------------------------------------------------------
(* Claims about trade ingestion and the position runs.                     *)

\* Digits with at most one decimal point.
DecimalNumeral(s) ==
    /\ \E i \in 1..Len(s) : IsDigit(s[i])
    /\ \A i \in 1..Len(s) : IsDigit(s[i]) \/ s[i] = "."
    /\ Cardinality({i \in 1..Len(s) : s[i] = "."}) <= 1

NaNString ==
    <<"N", "a", "N">>

HoldsNaN(position) ==
    \/ position.position = NaNString
    \/ position.buyVolume = NaNString
    \/ position.sellVolume = NaNString
    \/ position.avgPrice = NaNString

\* C12: a trade whose size or price is not a number ends in an error: it is
\* never stored as a trade, it never flows into a wallet position as a
\* non-number, and a run that returned never left one of its wallets out.
C12_MalformedNumberIsError ==
    /\ \A t \in trades : DecimalNumeral(t.size) /\ DecimalNumeral(t.price)
    /\ \A position \in allPositions(positionsByWallet) : ~HoldsNaN(position)
    /\ \A snapshot \in snapshots :
          snapshot.position # NaNString /\ snapshot.avgPrice # NaNString

InWindow(id) ==
    \E i \in 1..Len(window) : window[i].id = id

WindowIds ==
    {window[i].id : i \in 1..Len(window)}

Roles ==
    {"taker", "maker"}

Party(trade, role) ==
    IF role = "taker" THEN trade.taker ELSE trade.maker

Excluded(wallet) ==
    wallet \in {"", "0x0000000000000000000000000000000000000000"}

\* The loop over the window has ended.
Aggregated ==
    /\ pc \in {"computing", "returned"}
    /\ leg >= 2 * Len(window)

\* The numbers the size strings of the CLOB trades denote.
SizeOf(trade) ==
    CASE trade.size = <<"5">> -> I(5)
      [] trade.size = <<"3">> -> I(3)
      [] trade.size = <<"7">> -> I(7)
      [] trade.size = <<"2">> -> I(2)
      [] trade.size = <<"0", ".", "0", "1">> -> R(1, 100)
      [] trade.size = <<"0", ".", "0", "0", "5">> -> R(5, 1000)

\* The taker buys on BUY and sells on SELL; the maker does the opposite.
ClaimedBuy(trade, role) ==
    \/ role = "taker" /\ trade.side = "BUY"
    \/ role = "maker" /\ trade.side = "SELL"

\* <<i, role>> for each leg of the window that falls on wallet and tokenId.
LegsOf(wallet, tokenId) ==
    {l \in (1..Len(window)) \X Roles :
        /\ window[l[1]].tokenId = tokenId
        /\ Party(window[l[1]], l[2]) = wallet}

RECURSIVE SumSizes(_)
SumSizes(legs) ==
    IF legs = {} THEN Zero
    ELSE LET l == CHOOSE l \in legs : TRUE
         IN  RAdd(SizeOf(window[l[1]]), SumSizes(legs \ {l}))

ClaimedPosition(wallet, tokenId) ==
    LET legs == LegsOf(wallet, tokenId)
        buys == {l \in legs : ClaimedBuy(window[l[1]], l[2])}
    IN  [position |-> RSub(SumSizes(buys), SumSizes(legs \ buys)),
         buyVolume |-> SumSizes(buys),
         sellVolume |-> SumSizes(legs \ buys),
         tradeCount |-> Cardinality(legs)]

HasPosition(wallet, tokenId) ==
    /\ wallet \in DOMAIN positionsByWallet
    /\ tokenId \in DOMAIN positionsByWallet[wallet]

WindowWallets ==
    {Party(window[i], role) : i \in 1..Len(window), role \in Roles}

WindowTokens ==
    {window[i].tokenId : i \in 1..Len(window)}

\* C16: over a window of trades with decimal sizes, each wallet's position
\* per token is the sum of +size for its taker BUYs and maker SELLs and -size
\* for its taker SELLs and maker BUYs, its buy and sell volumes are the sums of
\* those sizes and its trade count is the number of its legs; W1 as taker of
\* BUY 5 and maker of SELL 3 ends at +8 with trade count 2.
C16_PositionAggregation ==
    (Aggregated /\ \A i \in 1..Len(window) : DecimalNumeral(window[i].size)) =>
        /\ \A wallet \in {w \in WindowWallets : ~Excluded(w)}, tokenId \in WindowTokens :
              LET claimed == ClaimedPosition(wallet, tokenId)
              IN  IF claimed.tradeCount = 0
                  THEN ~HasPosition(wallet, tokenId)
                  ELSE /\ HasPosition(wallet, tokenId)
                       /\ LET position == positionsByWallet[wallet][tokenId]
                          IN  /\ parseFloat(position.position) = claimed.position
                              /\ parseFloat(position.buyVolume) = claimed.buyVolume
                              /\ parseFloat(position.sellVolume) = claimed.sellVolume
                              /\ position.tradeCount = claimed.tradeCount
        /\ WindowIds = {"t1", "t2"} =>
              /\ positionsByWallet["W1"]["T1"].position = <<"8">>
              /\ positionsByWallet["W1"]["T1"].tradeCount = 2

\* A finished run over exactly the two trades of the example.
C16_Witness ==
    /\ pc = "returned"
    /\ WindowIds = {"t1", "t2"}
    /\ positionsByWallet["W1"]["T1"].position = <<"8">>
    /\ positionsByWallet["W2"]["T1"].position = <<"-", "8">>

\* C17: when a run has returned, every trade of its window has moved each of
\* its two participants that is not excluded: never one without the other.
C17_BothLegsApplied ==
    pc = "returned" =>
        \A i \in 1..Len(window), role \in Roles :
            ~Excluded(Party(window[i], role)) => <<window[i].id, role>> \in legsApplied

\* A run over three trades that returned with both legs of t1 and t2 applied.
C17_Witness ==
    /\ pc = "returned"
    /\ Len(window) = 3
    /\ {"t1", "t2"} \X Roles \subseteq legsApplied

\* C18: the empty wallet and the zero address never get a position, in the
\* map, in a returned list or in a snapshot, and when one side of a trade is
\* such a wallet the other side's leg is still applied.
C18_ZeroAddressExcluded ==
    /\ \A wallet \in DOMAIN positionsByWallet : ~Excluded(wallet)
    /\ \A position \in allPositions(positionsByWallet) : ~Excluded(position.wallet)
    /\ \A snapshot \in snapshots : ~Excluded(snapshot.wallet)
    /\ pc = "returned" =>
          \A i \in 1..Len(window) :
              /\ <<window[i].id, "taker">> \in legsApplied <=> ~Excluded(window[i].taker)
              /\ <<window[i].id, "maker">> \in legsApplied <=> ~Excluded(window[i].maker)

\* A run over the trade against the zero address and the trade without a
\* taker: the taker of the first and the maker of the second were moved.
C18_Witness ==
    /\ pc = "returned"
    /\ InWindow("t3")
    /\ InWindow("t4")
    /\ <<"t3", "taker">> \in legsApplied
    /\ <<"t4", "maker">> \in legsApplied
    /\ HasPosition("W2", "T2")

AtLeastMin(positionString) ==
    LET value == parseFloat(positionString)
    IN  /\ value # NaN
        /\ \/ RLe(opts.minPositionSize, value)
           \/ RLe(opts.minPositionSize, RSub(Zero, value))

SameHolding(a, b) ==
    /\ a.wallet = b.wallet
    /\ a.tokenId = b.tokenId
    /\ a.position = b.position

\* What the run that just returned has persisted or handed back.
Output ==
    IF opts.fn = "syncPositionsForMarket"
    THEN {snapshot \in snapshots : snapshot.timestamp = runs}
    ELSE returned.positions

\* C19: every position a run persisted or returned has |position| >=
\* minPositionSize, and every aggregated position with |position| >=
\* minPositionSize is among them.
C19_DustFilter ==
    pc = "returned" =>
        /\ \A out \in Output : AtLeastMin(out.position)
        /\ \A position \in allPositions(positionsByWallet) :
              AtLeastMin(position.position) =>
                  \E out \in Output : SameHolding(out, position)
        /\ \A out \in Output :
              \E position \in allPositions(positionsByWallet) : SameHolding(out, position)

\* A default sync that kept W2's position of exactly -0.01 and dropped W1's
\* position of -0.005.
C19_Witness ==
    /\ pc = "returned"
    /\ opts.fn = "syncPositionsForMarket"
    /\ opts.minPositionSize = R(1, 100)
    /\ HasPosition("W1", "T1")
    /\ positionsByWallet["W1"]["T1"].position = <<"-", "0", ".", "0", "0", "5">>
    /\ \E out \in Output : out.wallet = "W2" /\ out.position = <<"-", "0", ".", "0", "1">>
    /\ ~\E out \in Output : out.wallet = "W1"

\* C20: what a run aggregates and puts out is decided by its window alone,
\* whatever runs came before it and whatever they stored.
C20_WindowedRecomputation ==
    pc = "returned" =>
        /\ positionsByWallet = computePositionsFromTrades(window, MarketId)
        /\ \A out \in Output :
              \E position \in filterSignificantPositions(
                                 computePositionsFromTrades(window, MarketId),
                                 opts.minPositionSize) :
                  SameHolding(out, position)
        /\ \A position \in filterSignificantPositions(
                                computePositionsFromTrades(window, MarketId),
                                opts.minPositionSize) :
              \E out \in Output : SameHolding(out, position)

\* A second run that returned W1 at +8 after a first run had stored W1 at +5.
C20_Witness ==
    /\ pc = "returned"
    /\ runs = 2
    /\ \E snapshot \in snapshots :
          /\ snapshot.timestamp = 1
          /\ snapshot.wallet = "W1"
          /\ snapshot.position = <<"5">>
    /\ HasPosition("W1", "T1")
    /\ positionsByWallet["W1"]["T1"].position = <<"8">>


-----------------------------------------------------------------------------
(* C25: the engine's scorer and the Feature Bank agree on one input.       *)

\* scoreTrade and both Feature Bank entry points have run on the input.
BothScored ==
    /\ Scored
    /\ bank # NoResult
    /\ bankScore # NoResult

\* C25: for every input the feature values scoreTrade reports equal the
\* scores computeAllFeatures returns for the same eight features, and
\* scoreTrade's score equals computeWeightedScore of those features.
C25_ScorerMatchesFeatureBank ==
    BothScored =>
        /\ \A name \in FeatureNames : result.features[name] = bank[name].score
        /\ result.score = bankScore.score


-----------------------------------------------------------------------------
(* C26: the price kept on an aggregated position.                          *)

\* The leg of wallet and tokenId that belongs to the newest trade.
LastLegOf(wallet, tokenId) ==
    CHOOSE l \in LegsOf(wallet, tokenId) :
        \A m \in LegsOf(wallet, tokenId) :
            window[m[1]].timestamp <= window[l[1]].timestamp

\* C26: over a window read newest first, the avgPrice of every aggregated
\* position that has one is the price of the wallet's most recent trade, by
\* timestamp, for that token in the window.
C26_AvgPriceIsLastTradePrice ==
    (/\ Aggregated
     /\ \A i \in 1..Len(window) :
            DecimalNumeral(window[i].size) /\ DecimalNumeral(window[i].price)) =>
        \A wallet \in DOMAIN positionsByWallet :
            \A tokenId \in DOMAIN positionsByWallet[wallet] :
                LET position == positionsByWallet[wallet][tokenId]
                    last == window[LastLegOf(wallet, tokenId)[1]]
                IN  position.avgPrice # NULL =>
                        parseFloat(position.avgPrice) = parseFloat(last.price)


-----------------------------------------------------------------------------
(* calculateMedian of the db utilities.                                    *)

\* (a, b) => a - b
compareNumbers(a, b) ==
    RSub(a, b)

\* Mutant: the copy is left in the order of the input.
sortAscending_asGiven(arr) ==
    arr

\* [...values].sort((a, b) => a - b): a new array, the elements of arr with
\* every element before those the comparator puts after it.
RECURSIVE sortAscending(_)
sortAscending(arr) ==
    IF arr = <<>> THEN <<>>
    ELSE LET first ==
                 CHOOSE k \in 1..Len(arr) :
                     /\ \A j \in 1..Len(arr) : RLe(compareNumbers(arr[k], arr[j]), Zero)
                     /\ \A j \in 1..(k - 1) : RGt(compareNumbers(arr[j], arr[k]), Zero)
             rest == [j \in 1..(Len(arr) - 1) |->
                         IF j < first THEN arr[j] ELSE arr[j + 1]]
         IN  <<arr[first]>> \o sortAscending(rest)

\* sorted[index] of a JavaScript array: indices start at 0.
at(arr, index) ==
    arr[index + 1]

calculateMedian(vals) ==
    IF Len(vals) = 0 THEN NULL
    ELSE LET sorted == sortAscending(vals)
             midIndex == Len(sorted) \div 2
         IN  IF Len(sorted) % 2 = 0
             THEN RDiv(RAdd(at(sorted, midIndex - 1), at(sorted, midIndex)), I(2))
             ELSE at(sorted, midIndex)

\* Longest array handed to calculateMedian.
MaxLen == 4

\* Numbers the arrays are made of: negative, zero, repeated, spaced so that the
\* mean of two of them is a whole number or a half.
MedianValues ==
    {I(-3), I(0), I(1), I(2), I(4)}

MedianInputs ==
    UNION {[1..n -> MedianValues] : n \in 0..MaxLen}

InitMedian ==
    /\ values \in MedianInputs
    /\ medianResult = NoResult
    /\ BatchIdle
    /\ AlertsIdle
    /\ RetryIdle
    /\ LimiterIdle
    /\ ScoringIdle
    /\ PositionsIdle

\* calculateMedian(values); the sort runs on the copy [...values], so the
\* caller's array is what it was.
CalculateMedian ==
    /\ medianResult = NoResult
    /\ medianResult' = [value |-> calculateMedian(values), argument |-> values]
    /\ values' = values
    /\ UNCHANGED <<scoringVars, positionVars, batchVars, alertVars, retryVars, limiterVars>>

NextMedian ==
    CalculateMedian

SpecMedian ==
    InitMedian /\ [][NextMedian]_vars

-----------------------------------------------------------------------------
(* C24: the median.                                                        *)

\* The k-th smallest entry of vals (k = 1 .. Len(vals)), by counting.
KthSmallest(vals, k) ==
    CHOOSE x \in {vals[i] : i \in 1..Len(vals)} :
        /\ Cardinality({i \in 1..Len(vals) : RLt(vals[i], x)}) < k
        /\ Cardinality({i \in 1..Len(vals) : RLe(vals[i], x)}) >= k

ClaimedMedian(vals) ==
    LET n == Len(vals)
    IN  IF n = 0 THEN NULL
        ELSE IF n % 2 = 1 THEN KthSmallest(vals, (n + 1) \div 2)
        ELSE RDiv(RAdd(KthSmallest(vals, n \div 2), KthSmallest(vals, n \div 2 + 1)), I(2))

\* C24: calculateMedian returns null for an empty array, the middle entry of
\* the ascending order for an odd length and the mean of the two middle entries
\* for an even length, whatever the order of the input and with duplicates and
\* negative numbers; the array it was given is unchanged by the call.
C24_Median ==
    medianResult # NoResult =>
        /\ medianResult.value = ClaimedMedian(medianResult.argument)
        /\ values = medianResult.argument
        /\ values = <<>> => medianResult.value = NULL
        /\ values = <<I(4), I(1), I(0), I(2)>> => medianResult.value = R(3, 2)
        /\ values = <<I(1), I(2), I(2), I(4)>> => medianResult.value = I(2)
        /\ values = <<I(4), I(-3), I(0)>> => medianResult.value = I(0)

\* The median of an unsorted array of even length with a repeated entry.
C24_Witness ==
    /\ values = <<I(4), I(-3), I(2), I(-3)>>
    /\ medianResult # NoResult
    /\ medianResult.value = R(-1, 2)


-----------------------------------------------------------------------------
(* processBatches, and batchInsertTrades which runs insertTrade through it. *)
(* An operation started for an item is a promise: it takes its steps       *)
(* between the steps of the other operations of its batch.                 *)

DEFAULT_BATCH_SIZE == 500

\* Mutant: the last item of every batch is left out.
slice_lastDropped(arr, start, end) ==
    SubSeq(arr, start + 1, (IF end < Len(arr) THEN end ELSE Len(arr)) - 1)

\* arr.slice(start, end) for 0 <= start <= end
slice(arr, start, end) ==
    SubSeq(arr, start + 1, IF end < Len(arr) THEN end ELSE Len(arr))

\* { ...trade, createdAt: trade.createdAt ?? Timestamp.now() }
newTrade(trade, now) ==
    [id |-> trade.id,
     marketId |-> trade.marketId,
     tokenId |-> trade.tokenId,
     maker |-> trade.maker,
     taker |-> trade.taker,
     side |-> trade.side,
     size |-> trade.size,
     price |-> trade.price,
     timestamp |-> trade.timestamp,
     createdAt |-> IF "createdAt" \in DOMAIN trade THEN trade.createdAt ELSE now]

\* docRef.set(doc) on the document named by doc.id: whatever was stored under
\* that id is replaced.
docSet(collection, doc) ==
    {t \in collection : t.id # doc.id} \cup {doc}

\* (await docRef.get()).exists
docExists(collection, id) ==
    \E t \in collection : t.id = id

\* async (item) => item * 2, the operation of the processBatches tests
double(item) ==
    item * 2

\* results.filter((r) => r).length
RECURSIVE countTrue(_)
countTrue(rs) ==
    IF rs = <<>> THEN 0
    ELSE (IF Head(rs) THEN 1 ELSE 0) + countTrue(Tail(rs))

\* Longest array handed to processBatches.
MaxItems == 3

\* Latest value of Timestamp.now().
MaxClock == 2

\* The two trades of the CLOB pool a sync may fetch, possibly more than once.
DbTrades ==
    {toDbTrade(normalizeTrade(clob)) : clob \in {c \in ClobTrades : c.id \in {"t1", "t2"}}}

SeqsUpTo(S, n) ==
    UNION {[1..k -> S] : k \in 0..n}

\* Batch sizes the tests of processBatches pass, next to the default.
BatchSizes ==
    {1, 2, 3, DEFAULT_BATCH_SIZE}

\* The trades collection when the call is made: empty, or holding t1 from an
\* earlier sync.
StoredTrades ==
    {{}, {newTrade(d, 0) : d \in {t \in DbTrades : t.id = "t1"}}}

InitBatch ==
    /\ \/ /\ operation = "insertTrade"
          /\ batchSize = 100
          /\ items \in SeqsUpTo(DbTrades, MaxItems)
          /\ trades \in StoredTrades
       \/ /\ operation = "double"
          /\ batchSize \in BatchSizes
          /\ items \in SeqsUpTo({1, 2, 3}, MaxItems)
          /\ trades = {}
    /\ storedBefore = {t.id : t \in trades}
    /\ batchStart = 0
    /\ ops = <<>>
    /\ results = <<>>
    /\ inserted = NoResult
    /\ writes = <<>>
    /\ clock = 0
    /\ batchPc = "loop"
    /\ snapshots = {}
    /\ pc = "idle"
    /\ opts = NoResult
    /\ window = <<>>
    /\ leg = 0
    /\ positionsByWallet = <<>>
    /\ legsApplied = {}
    /\ returned = NoResult
    /\ runs = 0
    /\ ScoringIdle
    /\ AlertsIdle
    /\ RetryIdle
    /\ LimiterIdle
    /\ MedianIdle

\* What the steps of processBatches leave alone.
batchFrame ==
    <<scoringVars, snapshots, pc, opts, window, leg, positionsByWallet, legsApplied,
      returned, runs, alertVars, retryVars, limiterVars, medianVars,
      items, batchSize, operation, storedBefore>>

\* The operations of the batch being awaited.
currentOps ==
    {j \in DOMAIN ops : ops[j].index > batchStart}

\* const batch = items.slice(i, i + batchSize); batch.map(operation): every
\* operation of the batch is started before any of them goes on.
StartBatch ==
    /\ batchPc = "loop"
    /\ batchStart < Len(items)
    /\ LET batch == slice(items, batchStart, batchStart + batchSize)
       IN  ops' = ops \o [k \in 1..Len(batch) |->
                            [item |-> batch[k],
                             index |-> batchStart + k,
                             pc |-> "started",
                             doc |-> NoResult,
                             result |-> NoResult]]
    /\ batchPc' = "awaiting"
    /\ UNCHANGED <<batchFrame, trades, batchStart, results, inserted, writes, clock>>

\* insertTrade: existingDoc = await docRef.get(); if (existingDoc.exists)
\* return false; otherwise newTrade is built, with the time of this moment
InsertTradeGet(j) ==
    /\ operation = "insertTrade"
    /\ ops[j].pc = "started"
    /\ ops' = [ops EXCEPT ![j] =
                  IF docExists(trades, ops[j].item.id)
                  THEN [@ EXCEPT !.pc = "done", !.result = FALSE]
                  ELSE [@ EXCEPT !.pc = "set", !.doc = newTrade(ops[j].item, clock)]]
    /\ UNCHANGED <<batchFrame, trades, batchStart, results, inserted, writes, clock, batchPc>>

\* insertTrade: await docRef.set(newTrade); return true
InsertTradeSet(j) ==
    /\ operation = "insertTrade"
    /\ ops[j].pc = "set"
    /\ trades' = docSet(trades, ops[j].doc)
    /\ writes' = Append(writes, ops[j].doc)
    /\ ops' = [ops EXCEPT ![j] = [@ EXCEPT !.pc = "done", !.result = TRUE]]
    /\ UNCHANGED <<batchFrame, batchStart, results, inserted, clock, batchPc>>

\* The promise of async (item) => item * 2 settles.
Double(j) ==
    /\ operation = "double"
    /\ ops[j].pc = "started"
    /\ ops' = [ops EXCEPT ![j] = [@ EXCEPT !.pc = "done", !.result = double(ops[j].item)]]
    /\ UNCHANGED <<batchFrame, trades, batchStart, results, inserted, writes, clock, batchPc>>

\* await Promise.all(...) resumes once every promise of the batch has
\* settled; results.push(...batchResults); i += batchSize
CollectBatch ==
    /\ batchPc = "awaiting"
    /\ \A j \in currentOps : ops[j].pc = "done"
    /\ LET n == Cardinality(currentOps)
           batchResults == [k \in 1..n |-> ops[Len(ops) - n + k].result]
       IN  results' = results \o batchResults
    /\ batchStart' = batchStart + batchSize
    /\ batchPc' = "loop"
    /\ UNCHANGED <<batchFrame, trades, ops, inserted, writes, clock>>

\* return results; batchInsertTrades returns results.filter((r) => r).length
ReturnBatch ==
    /\ batchPc = "loop"
    /\ batchStart >= Len(items)
    /\ inserted' = IF operation = "insertTrade"
                   THEN [count |-> countTrue(results)]
                   ELSE NoResult
    /\ batchPc' = "returned"
    /\ UNCHANGED <<batchFrame, trades, batchStart, ops, results, writes, clock>>

\* Time passes.
TickClock ==
    /\ batchPc \in {"loop", "awaiting"}
    /\ clock < MaxClock
    /\ clock' = clock + 1
    /\ UNCHANGED <<batchFrame, trades, batchStart, ops, results, inserted, writes, batchPc>>

NextBatch ==
    \/ StartBatch
    \/ \E j \in DOMAIN ops : InsertTradeGet(j)
    \/ \E j \in DOMAIN ops : InsertTradeSet(j)
    \/ \E j \in DOMAIN ops : Double(j)
    \/ CollectBatch
    \/ ReturnBatch
    \/ TickClock

SpecBatch ==
    InitBatch /\ [][NextBatch]_vars


-----------------------------------------------------------------------------
(* C21: trades are deduplicated by id however the insertTrade calls        *)
(* interleave.                                                             *)

StoredIds ==
    {t.id : t \in trades}

\* The insertTrade calls that returned true for the id.
ReturnedTrue(id) ==
    {j \in DOMAIN ops : /\ ops[j].pc = "done"
                        /\ ops[j].item.id = id
                        /\ ops[j].result = TRUE}

\* C21: under every interleaving of the insertTrade calls of a batch, a
\* stored trade is never written again, at most one call per id returns true,
\* and the count batchInsertTrades returns is the number of ids it newly
\* stored.
C21_TradeDedup ==
    operation = "insertTrade" =>
        /\ \A a \in DOMAIN writes : writes[a].id \notin storedBefore
        /\ \A a, b \in DOMAIN writes : a # b => writes[a].id # writes[b].id
        /\ \A id \in {items[k].id : k \in 1..Len(items)} :
               Cardinality(ReturnedTrue(id)) <= 1
        /\ batchPc = "returned" =>
               inserted.count = Cardinality(StoredIds \ storedBefore)

-----------------------------------------------------------------------------
(* C23: processBatches.                                                    *)

\* The operations started for the item at position k (1-based).
StartedFor(k) ==
    {j \in DOMAIN ops : ops[j].index = k}

\* The batch the item at position k falls in.
BatchNumber(k) ==
    (k - 1) \div batchSize

\* C23: processBatches starts the operation once for every item and returns
\* the results in the order of the items, whatever the batch size and the
\* order in which the operations of a batch complete; an empty input gives an
\* empty result; no operation of a batch is started before every operation of
\* the batches before it has completed.
C23_ProcessBatches ==
    /\ \A j \in DOMAIN ops : ops[j].item = items[ops[j].index]
    /\ \A k \in 1..Len(items) : Cardinality(StartedFor(k)) <= 1
    /\ \A a, b \in DOMAIN ops :
           BatchNumber(ops[a].index) < BatchNumber(ops[b].index) => ops[a].pc = "done"
    /\ \A k \in 1..Len(results) :
           \E j \in StartedFor(k) : ops[j].pc = "done" /\ results[k] = ops[j].result
    /\ batchPc = "returned" =>
           /\ Len(results) = Len(items)
           /\ \A k \in 1..Len(items) : Cardinality(StartedFor(k)) = 1
           /\ operation = "double" =>
                  \A k \in 1..Len(items) : results[k] = 2 * items[k]
           /\ items = <<>> => results = <<>> /\ ops = <<>>

\* Three items in batches of two, returned in the order of the input.
C23_Witness ==
    /\ batchPc = "returned"
    /\ operation = "double"
    /\ batchSize = 2
    /\ items = <<3, 1, 2>>
    /\ results = <<6, 2, 4>>


-----------------------------------------------------------------------------
(* Alert creation: batchCreateAlerts calls that overlap in time, each      *)
(* going through its alerts one createAlertIfNotExists after the other.    *)

\* Most alerts handed to one batchCreateAlerts call.
MaxAlerts == 2

\* The calls that may overlap, as two runs of the cron job do.
CronRunIds ==
    {"runA", "runB"}

\* NewAlert: the trade it is about and the score it was raised for.
NewAlerts ==
    {[tradeId |-> "t1", score |-> <<"0", ".", "9">>],
     [tradeId |-> "t2", score |-> <<"0", ".", "8">>]}

\* collection.doc(): an id no other document has.
autoId(collection) ==
    Len(collection) + 1

\* !snapshot.empty of where("tradeId", "==", tradeId).limit(1).get()
alertExistsForTrade(collection, tradeId) ==
    \E k \in 1..Len(collection) : collection[k].tradeId = tradeId

\* { id: docRef.id, ...alert }
newAlert(collection, alert) ==
    [id |-> autoId(collection), tradeId |-> alert.tradeId, score |-> alert.score]

\* The alerts collection before the runs: empty, or holding the alert of t1.
StoredAlerts ==
    {<<>>} \cup {<<newAlert(<<>>, a)>> : a \in {n \in NewAlerts : n.tradeId = "t1"}}

InitAlerts ==
    /\ alertDocs \in StoredAlerts
    /\ cronRuns \in [CronRunIds ->
                        {[alerts |-> as, next |-> 1, pc |-> "loop", ids |-> <<>>] :
                            as \in SeqsUpTo(NewAlerts, MaxAlerts)}]
    /\ BatchIdle
    /\ RetryIdle
    /\ LimiterIdle
    /\ MedianIdle
    /\ ScoringIdle
    /\ PositionsIdle

\* createAlertIfNotExists: exists = await alertExistsForTrade(alert.tradeId);
\* if (exists) return null
AlertExistsForTrade(r) ==
    LET run == cronRuns[r]
    IN  /\ run.pc = "loop"
        /\ run.next <= Len(run.alerts)
        /\ cronRuns' = [cronRuns EXCEPT ![r] =
                           IF alertExistsForTrade(alertDocs, run.alerts[run.next].tradeId)
                           THEN [run EXCEPT !.next = run.next + 1]
                           ELSE [run EXCEPT !.pc = "create"]]
        /\ UNCHANGED <<scoringVars, positionVars, batchVars, retryVars, limiterVars,
                       medianVars, alertDocs>>

\* createAlert: await docRef.set(newAlert); return docRef.id; ids.push(id)
CreateAlert(r) ==
    LET run == cronRuns[r]
        doc == newAlert(alertDocs, run.alerts[run.next])
    IN  /\ run.pc = "create"
        /\ alertDocs' = Append(alertDocs, doc)
        /\ cronRuns' = [cronRuns EXCEPT ![r] =
                           [run EXCEPT !.pc = "loop",
                                       !.next = run.next + 1,
                                       !.ids = Append(run.ids, doc.id)]]
        /\ UNCHANGED <<scoringVars, positionVars, batchVars, retryVars, limiterVars,
                       medianVars>>

\* return ids
ReturnIds(r) ==
    LET run == cronRuns[r]
    IN  /\ run.pc = "loop"
        /\ run.next > Len(run.alerts)
        /\ cronRuns' = [cronRuns EXCEPT ![r] = [run EXCEPT !.pc = "returned"]]
        /\ UNCHANGED <<scoringVars, positionVars, batchVars, retryVars, limiterVars,
                       medianVars, alertDocs>>

NextAlerts ==
    \/ \E r \in CronRunIds : AlertExistsForTrade(r)
    \/ \E r \in CronRunIds : CreateAlert(r)
    \/ \E r \in CronRunIds : ReturnIds(r)

SpecAlerts ==
    InitAlerts /\ [][NextAlerts]_vars

-----------------------------------------------------------------------------
(* C22: alerts are deduplicated by trade id however the calls interleave.  *)

\* C22: under every interleaving of createAlertIfNotExists calls, the alerts
\* collection holds at most one alert per trade id.
C22_AlertDedup ==
    \A a, b \in 1..Len(alertDocs) :
        a # b => alertDocs[a].tradeId # alertDocs[b].tradeId


-----------------------------------------------------------------------------
(* withRetry.  Error messages are character sequences, so that             *)
(* message.includes(...) is a search and not a table.                      *)

DEFAULT_RETRY_CONFIG ==
    [maxRetries |-> 3,
     initialDelayMs |-> I(1000),
     maxDelayMs |-> I(30000),
     backoffMultiplier |-> I(2),
     jitterFactor |-> R(1, 10),
     retryableStatusCodes |-> <<408, 429, 500, 502, 503, 504>>]

\* Math.pow(base, n) for a whole n >= 0
RECURSIVE pow(_, _)
pow(base, n) ==
    IF n = 0 THEN One ELSE RMul(base, pow(base, n - 1))

\* Math.max
RMax(a, b) ==
    IF RLt(a, b) THEN b ELSE a

\* calculateDelay, with random standing for the value of Math.random() * 2 - 1
calculateDelay(n, config, random) ==
    LET exponentialDelay == RMul(config.initialDelayMs, pow(config.backoffMultiplier, n))
        cappedDelay == RMin(exponentialDelay, config.maxDelayMs)
        jitter == RMul(RMul(cappedDelay, config.jitterFactor), random)
    IN  RMax(Zero, RAdd(cappedDelay, jitter))

\* message.includes(part)
includes(message, part) ==
    \E k \in 0..(Len(message) - Len(part)) :
        SubSeq(message, k + 1, k + Len(part)) = part

\* error instanceof Error
instanceofError(error) ==
    error.class \in {"Error", "RetryableError"}

shouldRetry(error, config) ==
    IF error.class = "RetryableError" THEN TRUE
    ELSE IF instanceofError(error)
    THEN \/ includes(error.message, <<"E", "C", "O", "N", "N", "R", "E", "S", "E", "T">>)
         \/ includes(error.message, <<"E", "T", "I", "M", "E", "D", "O", "U", "T">>)
         \/ \E k \in 1..Len(config.retryableStatusCodes) :
                includes(error.message, toString(I(config.retryableStatusCodes[k])))
    ELSE FALSE

\* error instanceof Error ? error : new Error(String(error))
toError(error) ==
    IF instanceofError(error) THEN error
    ELSE [class |-> "Error", message |-> error.message]

\* Mutant: every error is retried while attempts are left.
retryAllowed_anyError(n, error, config) ==
    n < config.maxRetries

\* attempt < fullConfig.maxRetries && shouldRetry(error, fullConfig)
retryAllowed(n, error, config) ==
    n < config.maxRetries /\ shouldRetry(error, config)

\* Largest maxRetries a call is made with.
MaxRetriesTried == 2

\* { ...DEFAULT_RETRY_CONFIG, ...config }: the default with maxRetries
\* overridden, and one configuration whose delays hit the cap.
RetryConfigs ==
    {[DEFAULT_RETRY_CONFIG EXCEPT !.maxRetries = n] : n \in (-1)..MaxRetriesTried}
    \cup
    {[DEFAULT_RETRY_CONFIG EXCEPT !.maxRetries = 1,
                                  !.maxDelayMs = I(500),
                                  !.jitterFactor = Zero]}

\* What fn may throw: a RetryableError, errors with a network code or a
\* retryable status in the message, an error without, and a thrown string.
ThrownValues ==
    {[class |-> "RetryableError", message |-> <<"R", "a", "t", "e", " ", "l", "i", "m", "i", "t", "e", "d", ":", " ", "4", "2", "9">>],
     [class |-> "Error", message |-> <<"r", "e", "a", "d", " ", "E", "C", "O", "N", "N", "R", "E", "S", "E", "T">>],
     [class |-> "Error", message |-> <<"H", "T", "T", "P", " ", "5", "0", "3">>],
     [class |-> "Error", message |-> <<"H", "T", "T", "P", " ", "4", "0", "4">>],
     [class |-> "string", message |-> <<"5", "0", "3">>]}

\* How one invocation of fn settles.
FnOutcomes ==
    {[resolved |-> TRUE, error |-> NoResult]}
    \cup {[resolved |-> FALSE, error |-> e] : e \in ThrownValues}

\* Values of Math.random() * 2 - 1, which lies in [-1, 1).
RandomDraws ==
    {I(-1), Zero, R(1, 2)}

InitRetry ==
    /\ retryConfig \in RetryConfigs
    /\ retryPc = "loop"
    /\ attempt = 0
    /\ lastError = NoResult
    /\ totalDelayMs = Zero
    /\ invocations = <<>>
    /\ retryResult = NoResult
    /\ BatchIdle
    /\ AlertsIdle
    /\ LimiterIdle
    /\ MedianIdle
    /\ ScoringIdle
    /\ PositionsIdle

retryFrame ==
    <<scoringVars, positionVars, batchVars, alertVars, limiterVars, medianVars, retryConfig>>

failure ==
    [success |-> FALSE,
     error |-> lastError',
     attempts |-> retryConfig.maxRetries + 1,
     totalDelayMs |-> totalDelayMs']

\* One pass of the loop body: await fn(), then return the result, or catch
\* the error and either start sleeping or break and return the failure.
InvokeFn(outcome, random) ==
    /\ retryPc = "loop"
    /\ attempt <= retryConfig.maxRetries
    /\ invocations' = Append(invocations, outcome)
    /\ IF outcome.resolved
       THEN /\ retryResult' = [success |-> TRUE,
                               result |-> "result",
                               attempts |-> attempt + 1,
                               totalDelayMs |-> totalDelayMs]
            /\ retryPc' = "returned"
            /\ UNCHANGED <<lastError, totalDelayMs>>
       ELSE /\ lastError' = toError(outcome.error)
            /\ IF retryAllowed(attempt, outcome.error, retryConfig)
               THEN /\ totalDelayMs' =
                           RAdd(totalDelayMs, calculateDelay(attempt, retryConfig, random))
                    /\ retryPc' = "sleeping"
                    /\ UNCHANGED retryResult
               ELSE /\ totalDelayMs' = totalDelayMs
                    /\ retryResult' = failure
                    /\ retryPc' = "returned"
    /\ UNCHANGED <<retryFrame, attempt>>

\* sleep(delay) is over; attempt++
WakeUp ==
    /\ retryPc = "sleeping"
    /\ attempt' = attempt + 1
    /\ retryPc' = "loop"
    /\ UNCHANGED <<retryFrame, lastError, totalDelayMs, invocations, retryResult>>

\* attempt <= maxRetries is false: the loop ends and the failure is returned.
LeaveLoop ==
    /\ retryPc = "loop"
    /\ attempt > retryConfig.maxRetries
    /\ UNCHANGED <<lastError, totalDelayMs>>
    /\ retryResult' = failure
    /\ retryPc' = "returned"
    /\ UNCHANGED <<retryFrame, attempt, invocations>>

NextRetry ==
    \/ \E outcome \in FnOutcomes, random \in RandomDraws : InvokeFn(outcome, random)
    \/ WakeUp
    \/ LeaveLoop

SpecRetry ==
    InitRetry /\ [][NextRetry]_vars

\* fn settles and the timer of sleep fires: a call that can take a step
\* eventually takes one.
SpecRetryFair ==
    SpecRetry /\ WF_vars(NextRetry)


-----------------------------------------------------------------------------
(* C27 and C28: what withRetry does and what it reports.                   *)

\* The thrown values that are not to be retried: an Error whose message
\* names no network code and no retryable status, and anything that is not
\* an Error.
NotRetryable(error) ==
    \/ error.class = "string"
    \/ error.class = "Error" /\ error.message = <<"H", "T", "T", "P", " ", "4", "0", "4">>

BoundedInvocations ==
    /\ Len(invocations) <= (IF retryConfig.maxRetries >= 0
                            THEN retryConfig.maxRetries + 1
                            ELSE 0)
    /\ \A k \in 1..(Len(invocations) - 1) :
           /\ ~invocations[k].resolved
           /\ ~NotRetryable(invocations[k].error)
    /\ retryPc = "returned" =>
           /\ retryResult # NoResult
           /\ retryResult.success =
                  (invocations # <<>> /\ invocations[Len(invocations)].resolved)

\* C27: withRetry invokes fn at most maxRetries + 1 times, never again after
\* a success or after an error that is not to be retried, and it always ends
\* by returning a RetryResult.
C27_WithRetryTerminates ==
    /\ []BoundedInvocations
    /\ <>(retryPc = "returned")

\* A call that used up both of its retries and returned the failure.
C27_Witness ==
    /\ retryPc = "returned"
    /\ retryConfig.maxRetries = 2
    /\ Len(invocations) = 3
    /\ ~retryResult.success

\* C28: the attempts of a RetryResult, of a success and of a failure alike,
\* is the number of times fn was invoked.
C28_AttemptsCountInvocations ==
    retryPc = "returned" => retryResult.attempts = Len(invocations)


-----------------------------------------------------------------------------
(* RateLimiter and withRateLimit.  Several withRateLimit calls share one   *)
(* limiter; each runs until its next await, where the others may run.      *)
(* Time is counted in ticks of the clock behind Date.now().                *)

\* Latest value of Date.now().
MaxNow == 4

\* The calls of withRateLimit that may be in progress together.
CallerIds ==
    {"c1", "c2", "c3"}

\* new RateLimiter(config), with small limits and windows.
LimiterConfigs ==
    {[maxRequests |-> 1, windowMs |-> 2],
     [maxRequests |-> 2, windowMs |-> 3]}

\* this.requests.filter((time) => time > cutoff)
RECURSIVE filterAfter(_, _)
filterAfter(times, cutoff) ==
    IF times = <<>> THEN <<>>
    ELSE IF Head(times) > cutoff
    THEN <<Head(times)>> \o filterAfter(Tail(times), cutoff)
    ELSE filterAfter(Tail(times), cutoff)

\* this.requests after pruneOldRequests()
pruneOldRequests(times, config, now) ==
    filterAfter(times, now - config.windowMs)

\* What getTimeUntilNextRequest returns once it has pruned.
getTimeUntilNextRequest(pruned, config, now) ==
    IF Len(pruned) < config.maxRequests THEN 0
    ELSE IF pruned = <<>> THEN 0
    ELSE LET timeToWait == pruned[1] + config.windowMs - now
         IN  IF timeToWait > 0 THEN timeToWait ELSE 0

InitLimiter ==
    /\ limiterConfig \in LimiterConfigs
    /\ requests = <<>>
    /\ limiterNow = 0
    /\ callers = [c \in CallerIds |-> [pc |-> "idle", wakeAt |-> 0]]
    /\ recorded = <<>>
    /\ BatchIdle
    /\ AlertsIdle
    /\ RetryIdle
    /\ MedianIdle
    /\ ScoringIdle
    /\ PositionsIdle

limiterFrame ==
    <<scoringVars, positionVars, batchVars, alertVars, retryVars, medianVars, limiterConfig>>

\* withRateLimit up to its await: waitForAvailability prunes, reads the
\* waiting time and either starts a sleep or returns at once.
WaitForAvailability(c) ==
    /\ callers[c].pc = "idle"
    /\ LET pruned == pruneOldRequests(requests, limiterConfig, limiterNow)
           waitTime == getTimeUntilNextRequest(pruned, limiterConfig, limiterNow)
       IN  /\ requests' = pruned
           /\ callers' = [callers EXCEPT ![c] =
                             IF waitTime > 0
                             THEN [pc |-> "sleeping", wakeAt |-> limiterNow + waitTime]
                             ELSE [pc |-> "resuming", wakeAt |-> limiterNow]]
    /\ UNCHANGED <<limiterFrame, limiterNow, recorded>>

\* The timer of sleep(waitTime) fires, at its time or later.
SleepEnds(c) ==
    /\ callers[c].pc = "sleeping"
    /\ limiterNow >= callers[c].wakeAt
    /\ callers' = [callers EXCEPT ![c] = [@ EXCEPT !.pc = "resuming"]]
    /\ UNCHANGED <<limiterFrame, requests, limiterNow, recorded>>

\* withRateLimit after its await: limiter.recordRequest(); return fn()
RecordRequest(c) ==
    /\ callers[c].pc = "resuming"
    /\ requests' = Append(requests, limiterNow)
    /\ recorded' = Append(recorded, limiterNow)
    /\ callers' = [callers EXCEPT ![c] = [@ EXCEPT !.pc = "called"]]
    /\ UNCHANGED <<limiterFrame, limiterNow>>

\* Time passes.
TickNow ==
    /\ limiterNow < MaxNow
    /\ limiterNow' = limiterNow + 1
    /\ UNCHANGED <<limiterFrame, requests, callers, recorded>>

NextLimiter ==
    \/ \E c \in CallerIds : WaitForAvailability(c)
    \/ \E c \in CallerIds : SleepEnds(c)
    \/ \E c \in CallerIds : RecordRequest(c)
    \/ TickNow

SpecLimiter ==
    InitLimiter /\ [][NextLimiter]_vars

-----------------------------------------------------------------------------
(* C29: the rate limit under concurrent callers.                           *)

\* The requests recorded in the window of windowMs that ends at time t.
RecordedInWindow(t) ==
    {k \in DOMAIN recorded :
        recorded[k] > t - limiterConfig.windowMs /\ recorded[k] <= t}

\* C29: whatever the number of withRateLimit callers sharing a limiter and
\* however their steps interleave, no window of windowMs holds more than
\* maxRequests recorded requests.
C29_RateLimitHolds ==
    \A t \in 0..MaxNow :
        Cardinality(RecordedInWindow(t)) <= limiterConfig.maxRequests


-----------------------------------------------------------------------------
(* C30: what one wallet gains in a trade the other loses.                  *)

\* a === b for two numbers: NaN equals nothing.
SameNumber(a, b) ==
    a # NaN /\ b # NaN /\ a = b

\* The entries of the positions map for a token.
EntriesOf(tokenId) ==
    {p \in allPositions(positionsByWallet) : p.tokenId = tokenId}

RECURSIVE SumOf(_, _)
SumOf(entries, field) ==
    IF entries = {} THEN Zero
    ELSE LET p == CHOOSE p \in entries : TRUE
         IN  NumAdd(parseFloat(p[field]), SumOf(entries \ {p}, field))

\* Every trade of the window has side BUY or SELL and two real wallets.
TwoSidedWindow ==
    \A k \in 1..Len(window) :
        /\ window[k].side \in {"BUY", "SELL"}
        /\ ~Excluded(window[k].maker)
        /\ ~Excluded(window[k].taker)

\* C30: over a window of BUY and SELL trades between real wallets, the
\* positions of all wallets in a token sum to 0, the total buy volume equals
\* the total sell volume, and every entry's position is its buy volume minus
\* its sell volume.
C30_PositionConservation ==
    (Aggregated /\ TwoSidedWindow) =>
        \A tokenId \in WindowTokens :
            /\ SameNumber(SumOf(EntriesOf(tokenId), "position"), Zero)
            /\ SameNumber(SumOf(EntriesOf(tokenId), "buyVolume"),
                          SumOf(EntriesOf(tokenId), "sellVolume"))
            /\ \A p \in EntriesOf(tokenId) :
                   SameNumber(parseFloat(p.position),
                              NumSub(parseFloat(p.buyVolume), parseFloat(p.sellVolume)))

=============================================================================
